---- MODULE Spec2Model ----
(***************************************************************************)
(* Model of the geospatial preprocessing and extraction toolkit:           *)
(*   - the date list of a time series (month-based generator),             *)
(*   - the interval compositors S2_DRS_fn and leo7_fn,                     *)
(*   - the band normalisation of the Landsat time-series script,           *)
(*   - the by-year mosaic loop of the R scripts and the mosaic functions,  *)
(*   - the spectral index and mask functions at the level of one pixel,    *)
(*   - the NDRS band of addNDRS over the pixels of an image.               *)
(* Each component has its own variables, its own initial predicate and     *)
(* its own specification; the variables of the other components rest at    *)
(* an idle value.                                                          *)
(***************************************************************************)
EXTENDS Integers, Sequences, FiniteSets, TLC

VARIABLES
    \* date list (script building `dates`)
    Date_Start, Date_End, interval, n_months, dates, datePc,
    \* interval compositors: the scene archive, the call and its result
    catalog, ts_fn, ts_dates, ts_interval, collection, tsPc,
    \* Landsat time-series script: the collection `ls` being normalised
    ls, ls_input, ls_origin, lsPc, drive,
    \* by-year mosaic script
    raster_files, corrupt, years, yi, year_files, export_filename, rsrc, mosaicked,
    disk, progress, mosPc,
    \* index and mask functions: the image, the image the calls started
    \* from, and the calls applied so far
    image, image_in, applied,
    \* addNDRS: the image and land cover it is given, and what it returns
    ndrs_in, ndrs_out,
    \* parallel by-year mosaic script: the tasks of parLapply and the cluster
    tasks, cl

dateVars == <<Date_Start, Date_End, interval, n_months, dates, datePc>>

tsVars == <<catalog, ts_fn, ts_dates, ts_interval, collection, tsPc>>

lsVars == <<ls, ls_input, ls_origin, lsPc, drive>>

mosVars ==
    <<raster_files, corrupt, years, yi, year_files, export_filename, rsrc, mosaicked,
      disk, progress, mosPc>>

pxVars == <<image, image_in, applied>>

ndrsVars == <<ndrs_in, ndrs_out>>

parVars == <<tasks, cl>>

vars == <<dateVars, tsVars, lsVars, mosVars, pxVars, ndrsVars, parVars>>

notDateVars == <<tsVars, lsVars, mosVars, pxVars, ndrsVars, parVars>>
notTsVars == <<dateVars, lsVars, mosVars, pxVars, ndrsVars, parVars>>
notLsVars == <<dateVars, tsVars, mosVars, pxVars, ndrsVars, parVars>>
notMosVars == <<dateVars, tsVars, lsVars, pxVars, ndrsVars, parVars>>
notPxVars == <<dateVars, tsVars, lsVars, mosVars, ndrsVars, parVars>>
notNdrsVars == <<dateVars, tsVars, lsVars, mosVars, pxVars, parVars>>
notParVars == <<dateVars, tsVars, lsVars, pxVars, ndrsVars>>

(***************************************************************************)
(* Generic helpers                                                         *)
(***************************************************************************)
Min2(a, b) == IF a <= b THEN a ELSE b

Range(s) == {s[i] : i \in DOMAIN s}

(***************************************************************************)
(* Calendar dates: <<year, month, day>> (what ee.Date holds, at day        *)
(* resolution).                                                            *)
(***************************************************************************)
IsLeap(y) == (y % 4 = 0 /\ y % 100 # 0) \/ y % 400 = 0

DaysInMonth(y, m) ==
    IF m = 2 THEN (IF IsLeap(y) THEN 29 ELSE 28)
    ELSE IF m \in {4, 6, 9, 11} THEN 30 ELSE 31

\* Days from 2000-01-01 to the first day of year y (2000 <= y < 2100).
DaysBeforeYear(y) == 365 * (y - 2000) + ((y - 2000 + 3) \div 4)

RECURSIVE DaysBeforeMonth(_, _)
DaysBeforeMonth(y, m) ==
    IF m = 1 THEN 0 ELSE DaysBeforeMonth(y, m - 1) + DaysInMonth(y, m - 1)

\* Day number of a date (its timestamp in days).
DayNumber(d) == DaysBeforeYear(d[1]) + DaysBeforeMonth(d[1], d[2]) + d[3] - 1

DateLeq(a, b) == DayNumber(a) <= DayNumber(b)
DateLt(a, b) == DayNumber(a) < DayNumber(b)

\* ee.Date.advance(n, 'month'): calendar arithmetic; the day of the month is
\* kept and clamped to the length of the target month.
AdvanceMonths(d, n) ==
    LET total == d[1] * 12 + (d[2] - 1) + n
        y == total \div 12
        m == (total % 12) + 1
    IN  <<y, m, Min2(d[3], DaysInMonth(y, m))>>

\* ee.Date.difference(start, 'month').round(): the difference is the elapsed
\* time divided by the average length of a month, 365.2425 / 12 = 30.436875
\* days = 48699 / 1600 days; round() takes the nearest integer.
DifferenceMonthsRounded(end, start) ==
    LET days == DayNumber(end) - DayNumber(start)
    IN  (3200 * days + 48699) \div 97398

\* ee.List.sequence(0, end, step) for step # 0: 0, step, 2*step, ... up to and
\* including end; empty when end lies on the other side of 0.
ListSequence(end, step) ==
    IF step > 0
    THEN IF end < 0 THEN <<>>
         ELSE [k \in 1..((end \div step) + 1) |-> (k - 1) * step]
    ELSE IF end > 0 THEN <<>>
         ELSE [k \in 1..(((-end) \div (-step)) + 1) |-> (k - 1) * step]

\* make_datelist: one offset to one date.
make_datelist(n) == AdvanceMonths(Date_Start, n)

(***************************************************************************)
(* Inputs of the date list                                                 *)
(***************************************************************************)
FirstYear == 2019
YearSpan == 5
StartYears == 1

\* The first and the last day of a month.
DayChoices(y, m) == {1, DaysInMonth(y, m)}

StartDates ==
    UNION {{<<y, m, d>> : d \in DayChoices(y, m)} :
              y \in FirstYear..(FirstYear + StartYears), m \in {1, 6}}

EndDates ==
    UNION {{<<y, m, d>> : d \in DayChoices(y, m)} :
              y \in FirstYear..(FirstYear + YearSpan), m \in {1, 6, 12}}

Intervals == {-12, 0, 1, 6, 12}

TsIdle ==
    /\ catalog = {}
    /\ ts_fn = "none"
    /\ ts_dates = <<>>
    /\ ts_interval = 0
    /\ collection = <<>>
    /\ tsPc = "idle"

LsIdle ==
    /\ ls = <<>>
    /\ ls_input = <<>>
    /\ ls_origin = "none"
    /\ lsPc = "idle"
    /\ drive = <<>>

MosIdle ==
    /\ raster_files = <<>>
    /\ corrupt = {}
    /\ years = <<>>
    /\ yi = 0
    /\ year_files = <<>>
    /\ export_filename = <<>>
    /\ rsrc = <<>>
    /\ mosaicked = {}
    /\ disk = <<>>
    /\ progress = <<>>
    /\ mosPc = "idle"

PxIdle ==
    /\ image = <<>>
    /\ image_in = <<>>
    /\ applied = <<>>

NdrsIdle ==
    /\ ndrs_in = <<>>
    /\ ndrs_out = <<>>

ParIdle ==
    /\ tasks = <<>>
    /\ cl = "none"

(***************************************************************************)
(* The date list script, statement by statement                            *)
(***************************************************************************)
DateIdle ==
    /\ Date_Start = <<0, 0, 0>>
    /\ Date_End = <<0, 0, 0>>
    /\ interval = 0
    /\ n_months = 0
    /\ dates = <<>>
    /\ datePc = "idle"

DateInit ==
    /\ Date_Start \in StartDates
    /\ Date_End \in EndDates
    /\ interval \in Intervals
    /\ n_months = 0
    /\ dates = <<>>
    /\ datePc = "n_months"

\* var n_months = Date_End.difference(Date_Start,'month').round();
ComputeNMonths ==
    /\ datePc = "n_months"
    /\ n_months' = DifferenceMonthsRounded(Date_End, Date_Start)
    /\ datePc' = "sequence"
    /\ UNCHANGED <<Date_Start, Date_End, interval, dates>>
    /\ UNCHANGED notDateVars

\* var dates = ee.List.sequence(0, n_months, interval);
\* A step of zero is rejected by the platform (no list is built).
BuildSequence ==
    /\ datePc = "sequence"
    /\ IF interval = 0
       THEN /\ datePc' = "platform_error"
            /\ UNCHANGED dates
       ELSE /\ dates' = ListSequence(n_months, interval)
            /\ datePc' = "map"
    /\ UNCHANGED <<Date_Start, Date_End, interval, n_months>>
    /\ UNCHANGED notDateVars

\* dates = dates.map(make_datelist);
MapDates ==
    /\ datePc = "map"
    /\ dates' = [k \in DOMAIN dates |-> make_datelist(dates[k])]
    /\ datePc' = "done"
    /\ UNCHANGED <<Date_Start, Date_End, interval, n_months>>
    /\ UNCHANGED notDateVars

DateNext == ComputeNMonths \/ BuildSequence \/ MapDates

InitDates == DateInit /\ TsIdle /\ LsIdle /\ MosIdle /\ PxIdle /\ NdrsIdle /\ ParIdle

SpecDates == InitDates /\ [][DateNext]_vars

(***************************************************************************)
(* Claims about the date list                                              *)
(***************************************************************************)
ValidRange == interval > 0 /\ DateLeq(Date_Start, Date_End)

\* The number of whole calendar months from a to b (a <= b): the largest n
\* with a advanced by n months still <= b.
WholeMonths(a, b) ==
    LET m0 == (b[1] * 12 + b[2]) - (a[1] * 12 + a[2])
    IN  IF DateLeq(AdvanceMonths(a, m0), b) THEN m0 ELSE m0 - 1

\* C1: for step > 0 and end >= start the date list is non-empty, strictly
\* increasing, starts at start and its last element is <= end.
C1_ListWithinRange ==
    (datePc = "done" /\ ValidRange) =>
        /\ Len(dates) > 0
        /\ dates[1] = Date_Start
        /\ \A i \in 1..(Len(dates) - 1) : DateLt(dates[i], dates[i + 1])
        /\ DateLeq(dates[Len(dates)], Date_End)

\* C2: the date list holds exactly floor((end - start) / step) + 1 dates, the
\* k-th being start advanced by k * step months.
C2_CountAndElements ==
    (datePc = "done" /\ ValidRange) =>
        /\ Len(dates) = (WholeMonths(Date_Start, Date_End) \div interval) + 1
        /\ \A k \in 1..Len(dates) :
               dates[k] = AdvanceMonths(Date_Start, (k - 1) * interval)

\* C3: when end < start or step <= 0 the generation ends in an error and
\* returns no list.
C3_InvalidRangeFails ==
    (DateLt(Date_End, Date_Start) \/ interval <= 0) => datePc # "done"

(***************************************************************************)
(* Interval compositors (functions/timeseries_functions)                   *)
(*                                                                         *)
(* Time is counted in months: a timestamp is year * 12 + (month - 1), a    *)
(* start date is the first instant of its month and a scene is acquired    *)
(* inside its month.  The raster has one pixel inside the area of interest *)
(* and one outside.  A composite records, for every pixel, the scenes      *)
(* whose unmasked observation enters the median; a pixel with no such      *)
(* scene is undefined.                                                     *)
(***************************************************************************)
Pixels == {"in", "out"}

aoi == {"in"}

MaxT == 2
MaxScenes == 2
MaxDates == 2

\* May 2019: the first of the modelled months (May lies outside the June to
\* September season of S2_DRS_fn).
T0 == 2019 * 12 + 4

Times == T0..(T0 + MaxT)

MonthOf(t) == (t % 12) + 1
YearOf(t) == t \div 12

Footprints == {{"out"}, {"in", "out"}}

LandsatArchive ==
    [sensor : {"LT05", "LE07"}, t : Times, foot : Footprints, qa : {0, 8},
     cloudy : {0}]

S2Archive ==
    [sensor : {"S2"}, t : Times, foot : Footprints, qa : {0, 1024},
     cloudy : {10, 30}]

Archive(fn) == IF fn = "S2_DRS_fn" THEN S2Archive ELSE LandsatArchive

\* Date lists as the generator builds them: strictly increasing.
RECURSIVE IncreasingLists(_, _, _)
IncreasingLists(S, n, lo) ==
    IF n = 0 THEN {<<>>}
    ELSE {<<>>} \cup
         UNION {{<<t>> \o rest : rest \in IncreasingLists(S, n - 1, t + 1)} :
                   t \in {u \in S : u >= lo}}

DateLists == IncreasingLists(Times, MaxDates, T0) \ {<<>>}

IntervalChoices == {1, 2}

\* Bit k of a QA value.
BitSet(n, k) == (n \div (2 ^ k)) % 2 = 1

S2RawBands == <<"B3", "B4", "B8", "B11", "QA60", "SCL">>

LandsatRawBands ==
    <<"SR_B1", "SR_B2", "SR_B3", "SR_B4", "SR_B5", "SR_B7", "ST_B6", "QA_PIXEL">>

S2IndexChain == <<"NDVI", "NDWI", "DSWI", "RDI", "NDRE3", "DRS">>

LandsatIndexChain ==
    <<"NDVI", "NDMI", "EVI", "SAVI", "BSI", "SI", "LAI", "DSWI", "DRS">>

S2Select == <<"NDVI", "NDWI", "DSWI", "RDI", "NDRE3", "DRS">>

LandsatSelect ==
    <<"NDVI", "NDMI", "EVI", "SAVI", "BSI", "SI", "LAI", "DSWI", "DRS">>

\* An image of a collection being processed: its band list, the pixels where
\* it is unmasked, and the scene it comes from.
SceneImage(s, bands) == [scene |-> s, bands |-> bands, valid |-> s.foot]

\* The result of an image computation that raised an error.
ErrImage ==
    [kind |-> "error", bands |-> <<>>, contrib |-> [p \in Pixels |-> {}],
     reduced |-> {}, props |-> [date |-> 0, month |-> 0, year |-> 0]]

NoProps == [date |-> -1, month |-> -1, year |-> -1]

\* A date filter that also keeps a scene acquired at the end of the range.
FilterDate_endInclusive(coll, start, end) ==
    {s \in coll : start <= s.t /\ s.t <= end}

\* filterDate(DateRange(start, end)): start inclusive, end exclusive.
FilterDate(coll, start, end) == {s \in coll : start <= s.t /\ s.t < end}

\* filterBounds(aoi): the scenes whose footprint intersects the geometry.
FilterBounds(coll, geom) == {s \in coll : s.foot \cap geom # {}}

\* filter(ee.Filter.calendarRange(6, 9, 'month'))
FilterCalendarRange(coll, lo, hi) ==
    {s \in coll : MonthOf(s.t) >= lo /\ MonthOf(s.t) <= hi}

\* filter(ee.Filter.lt('CLOUDY_PIXEL_PERCENTAGE', 20))
FilterCloudyLt(coll, pct) == {s \in coll : s.cloudy < pct}

\* masks.maskS2clouds: bits 10 and 11 of QA60 must both be zero.
maskS2clouds(img) ==
    IF ~BitSet(img.scene.qa, 10) /\ ~BitSet(img.scene.qa, 11)
    THEN img ELSE [img EXCEPT !.valid = {}]

\* landsat.mask_cloud_snow: bits 3, 4 and 5 of QA_PIXEL must all be zero.
mask_cloud_snow(img) ==
    IF ~BitSet(img.scene.qa, 3) /\ ~BitSet(img.scene.qa, 4)
       /\ ~BitSet(img.scene.qa, 5)
    THEN img ELSE [img EXCEPT !.valid = {}]

\* .map(addX) for every index of a chain: each appends its band.
AddIndexBands(img, chain) == [img EXCEPT !.bands = img.bands \o chain]

\* ImageCollection.select(names) on the images of a collection.
SelectEach(imgs, names) == {[i EXCEPT !.bands = names] : i \in imgs}

\* ImageCollection.median(): the bands are those of the collection's images
\* (none when the collection is empty); per pixel the median is taken over
\* the images unmasked there.
MedianOf(imgs) ==
    [kind |-> "image",
     bands |-> IF imgs = {} THEN <<>> ELSE (CHOOSE i \in imgs : TRUE).bands,
     contrib |-> [p \in Pixels |-> {i.scene : i \in {j \in imgs : p \in j.valid}}],
     reduced |-> {i.scene : i \in imgs},
     props |-> NoProps]

\* .set("date", date, "month", date.get('month'), "year", date.get('year'))
SetDateProps(img, date) ==
    [img EXCEPT !.props = [date |-> date, month |-> MonthOf(date),
                           year |-> YearOf(date)]]

\* Image.select(names): an error when a name matches no band.
SelectBands(img, names) ==
    IF img.kind = "error" THEN img
    ELSE IF Range(names) \subseteq Range(img.bands)
         THEN [img EXCEPT !.bands = names]
         ELSE ErrImage

\* img.clip(aoi): pixels outside the geometry are masked.
Clip(img, geom) ==
    IF img.kind = "error" THEN img
    ELSE [img EXCEPT !.contrib = [p \in Pixels |->
                                    IF p \in geom THEN img.contrib[p] ELSE {}]]

\* s2_ts: the composite of the interval starting at d1.
s2_ts(d1, archive, ival, geom) ==
    LET start == d1
        end == d1 + ival
        s2 == FilterBounds(
                  FilterCloudyLt(
                      FilterCalendarRange(FilterDate(archive, start, end), 6, 9),
                      20),
                  geom)
        imgs == {AddIndexBands(maskS2clouds(SceneImage(s, S2RawBands)),
                               S2IndexChain) : s \in s2}
    IN  SetDateProps(MedianOf(SelectEach(imgs, S2Select)), d1)

\* leo7_ts: the composite of the interval starting at d1.
leo7_ts(d1, archive, ival) ==
    LET start == d1
        end == d1 + ival
        leo5 == FilterDate({s \in archive : s.sensor = "LT05"}, start, end)
        leo7 == FilterDate({s \in archive : s.sensor = "LE07"}, start, end)
        mergedCollection ==
            {AddIndexBands(mask_cloud_snow(SceneImage(s, LandsatRawBands)),
                           LandsatIndexChain) : s \in leo5 \cup leo7}
    IN  SelectBands(SetDateProps(MedianOf(mergedCollection), d1), LandsatSelect)

\* ee.ImageCollection(dates.map(s2_ts)).map(clip)
S2_DRS_fn(ds, ival, geom) ==
    [i \in DOMAIN ds |-> Clip(s2_ts(ds[i], catalog, ival, geom), geom)]

\* ee.ImageCollection(dates.map(leo7_ts)).map(clip)
leo7_fn(ds, ival, geom) ==
    [i \in DOMAIN ds |-> Clip(leo7_ts(ds[i], catalog, ival), geom)]

TsInit ==
    /\ catalog = {}
    /\ ts_fn \in {"S2_DRS_fn", "leo7_fn"}
    /\ ts_dates = <<>>
    /\ ts_interval = 0
    /\ collection = <<>>
    /\ tsPc = "archive"

\* The platform's archive gains a scene.
Acquire(s) ==
    /\ tsPc = "archive"
    /\ Cardinality(catalog) < MaxScenes
    /\ s \notin catalog
    /\ catalog' = catalog \cup {s}
    /\ UNCHANGED <<ts_fn, ts_dates, ts_interval, collection, tsPc>>
    /\ UNCHANGED notTsVars

CallS2_DRS_fn(ds, ival) ==
    /\ tsPc = "archive"
    /\ ts_fn = "S2_DRS_fn"
    /\ ts_dates' = ds
    /\ ts_interval' = ival
    /\ collection' = S2_DRS_fn(ds, ival, aoi)
    /\ tsPc' = "done"
    /\ UNCHANGED <<catalog, ts_fn>>
    /\ UNCHANGED notTsVars

CallLeo7_fn(ds, ival) ==
    /\ tsPc = "archive"
    /\ ts_fn = "leo7_fn"
    /\ ts_dates' = ds
    /\ ts_interval' = ival
    /\ collection' = leo7_fn(ds, ival, aoi)
    /\ tsPc' = "done"
    /\ UNCHANGED <<catalog, ts_fn>>
    /\ UNCHANGED notTsVars

TsNext ==
    \/ \E s \in Archive(ts_fn) : Acquire(s)
    \/ \E ds \in DateLists, ival \in IntervalChoices : CallS2_DRS_fn(ds, ival)
    \/ \E ds \in DateLists, ival \in IntervalChoices : CallLeo7_fn(ds, ival)

InitTs == TsInit /\ DateIdle /\ LsIdle /\ MosIdle /\ PxIdle /\ NdrsIdle /\ ParIdle

SpecTs == InitTs /\ [][TsNext]_vars

(***************************************************************************)
(* Claims about the interval compositors                                   *)
(***************************************************************************)
InWindow(s, i) == ts_dates[i] <= s.t /\ s.t < ts_dates[i] + ts_interval

Composites == {i \in DOMAIN collection : collection[i].kind = "image"}

\* The scenes of the archive that pass the filters of interval i.
FilteredScenes(i) ==
    IF ts_fn = "S2_DRS_fn"
    THEN s2_ts(ts_dates[i], catalog, ts_interval, aoi).reduced
    ELSE FilterDate(catalog, ts_dates[i], ts_dates[i] + ts_interval)

\* Every contributing observation comes from a reduced scene at a pixel of
\* its footprint, and no pixel outside the area of interest is defined.
ClippedContributions(i) ==
    /\ \A p \in Pixels : \A s \in collection[i].contrib[p] :
           s \in collection[i].reduced /\ p \in s.foot
    /\ \A p \in Pixels \ aoi : collection[i].contrib[p] = {}

\* C4 (as stated): in every compositor the scenes reduced for an interval lie
\* in [start, end) and intersect the area of interest (the spatial filter is
\* applied), and the composite is clipped to the area of interest.
C4_FilterAndClipEverywhere ==
    tsPc = "done" =>
        \A i \in Composites :
            /\ \A s \in collection[i].reduced :
                   InWindow(s, i) /\ s.foot \cap aoi # {}
            /\ ClippedContributions(i)

\* C4 (amended): the scenes reduced for an interval lie in [start, end); the
\* spatial scene filter is applied by S2_DRS_fn only; every composite is
\* clipped, so an observation contributes only at a pixel inside both its
\* scene's footprint and the area of interest.
C4_WindowAndClip ==
    tsPc = "done" =>
        \A i \in Composites :
            /\ \A s \in collection[i].reduced : InWindow(s, i)
            /\ ts_fn = "S2_DRS_fn" =>
                   \A s \in collection[i].reduced : s.foot \cap aoi # {}
            /\ ClippedContributions(i)
            /\ \A p \in Pixels : \A s \in collection[i].contrib[p] : p \in aoi

\* A composite with a contributing scene whose pixel outside the area of
\* interest was clipped, while a scene acquired exactly at the end of the
\* interval stayed out of the reduction.
C4_Witness ==
    /\ tsPc = "done"
    /\ \E i \in Composites :
           /\ \E s \in collection[i].contrib["in"] : "out" \in s.foot
           /\ \E s \in catalog :
                  /\ s.t = ts_dates[i] + ts_interval
                  /\ s \notin collection[i].reduced

\* C5: the compositor returns one image per start date, in list order, the
\* i-th carrying date, year and month of the i-th start date.
C5_OneImagePerDate ==
    tsPc = "done" =>
        /\ Len(collection) = Len(ts_dates)
        /\ \A i \in DOMAIN ts_dates :
               /\ collection[i].kind = "image"
               /\ collection[i].props.date = ts_dates[i]
               /\ collection[i].props.year = YearOf(ts_dates[i])
               /\ collection[i].props.month = MonthOf(ts_dates[i])

UsualBands == IF ts_fn = "S2_DRS_fn" THEN S2Select ELSE LandsatSelect

\* C8: an interval whose filtered scene collection is empty yields a
\* composite with the usual band set and every pixel undefined.
C8_EmptyIntervalAllUndefined ==
    tsPc = "done" =>
        \A i \in DOMAIN ts_dates :
            FilteredScenes(i) = {} =>
                /\ collection[i].kind = "image"
                /\ collection[i].bands = UsualBands
                /\ \A p \in Pixels : collection[i].contrib[p] = {}

\* C10: at a pixel with a valid observation of another generation, no
\* Landsat 7 observation contributes to the Landsat composite.
C10_Landsat7LowestPriority ==
    (tsPc = "done" /\ ts_fn = "leo7_fn") =>
        \A i \in Composites : \A p \in Pixels :
            (\E s \in collection[i].contrib[p] : s.sensor # "LE07") =>
                \A s \in collection[i].contrib[p] : s.sensor # "LE07"

(***************************************************************************)
(* Landsat time-series script: NDRS bands and band normalisation           *)
(*                                                                         *)
(* An image is described by its ordered bands (name and pixel type) and    *)
(* its year property.                                                      *)
(***************************************************************************)
MaxImages == 2

Band(n, ty) == [name |-> n, type |-> ty]

BandNames(img) == [k \in DOMAIN img.bands |-> img.bands[k].name]

BandImage(bs, y) == [kind |-> "image", bands |-> bs, year |-> y]

ErrBandImage == [kind |-> "error", bands |-> <<>>, year |-> 0]

WithType(names, ty) == [k \in DOMAIN names |-> Band(names[k], ty)]

\* The index lists of the calls of ls_fn: the script's list, the list of the
\* README, and a list without DRS.
ScriptIndices ==
    <<"BSI", "DRS", "DSWI", "EVI", "GNDVI", "LAI", "NBR", "NDMI", "NDSI",
      "NDVI", "NDWI", "SAVI", "SI", "RVI", "DVI", "TVI", "CI", "BI", "NDBI",
      "NSRVI">>

ReadmeIndices ==
    <<"BSI", "DRS", "DSWI", "EVI", "GNDVI", "LAI", "NBR", "NDMI", "NDSI",
      "NDVI", "NDWI", "SAVI", "SI">>

IndexLists == {ScriptIndices, ReadmeIndices, <<"NDVI", "EVI">>}

LsYears == (FirstYear - 1)..(FirstYear + 1)

LsDateLists == IncreasingLists(LsYears, MaxImages, FirstYear - 1) \ {<<>>}

\* landsatTimeSeries.ls_fn: one composite per start date, with the surface
\* reflectance bands, the QA_PIXEL band and one band per selected index.
ls_fn(dateList, selectedIndices) ==
    [i \in DOMAIN dateList |->
        BandImage(WithType(<<"SR_B1", "SR_B2", "SR_B3", "SR_B4", "SR_B5", "SR_B7">>,
                           "double")
                    \o <<Band("QA_PIXEL", "uint16")>>
                    \o WithType(selectedIndices, "double"),
                  dateList[i])]

\* Collections of any origin: images whose band lists may differ.
BandListChoices ==
    {<<"DRS", "NDVI", "EVI">>, <<"DRS", "NDVI", "EVI", "NBR">>,
     <<"QA_PIXEL", "DRS", "NDVI">>, <<"NDVI", "EVI">>}

AnyImages ==
    {BandImage(WithType(bl, ty), y) :
        bl \in BandListChoices, ty \in {"double", "int16"}, y \in {FirstYear}}

RECURSIVE SeqsUpTo(_, _)
SeqsUpTo(S, n) ==
    IF n = 0 THEN {<<>>}
    ELSE {<<>>} \cup {<<x>> \o rest : x \in S, rest \in SeqsUpTo(S, n - 1)}

AnyCollections == SeqsUpTo(AnyImages, MaxImages) \ {<<>>}

\* A suffix that tells single classes from several, but not 210 from 220.
NDRSSuffix_lengthOnly(forestTypes) ==
    IF Len(forestTypes) = 1 THEN "_coni" ELSE "_mixed"

\* The suffix of the NDRS band for the requested forest types (an omitted
\* argument is <<>> and defaults to all three types).
NDRSSuffix(forestTypes) ==
    LET types == IF forestTypes = <<>> THEN <<210, 220, 230>> ELSE forestTypes
    IN  IF Len(types) = 1
        THEN IF types[1] = 210 THEN "_coni"
             ELSE IF types[1] = 220 THEN "_deci" ELSE "_mixed"
        ELSE "_mixed"

\* image.addBands(band) without overwrite: a band whose name is taken is
\* added under the name with a numerical suffix (X_1 unless X_1 exists, then
\* X_2, and so on).
NumSuffix == <<"_1", "_2", "_3", "_4", "_5">>

addBands(img, band) ==
    IF band.name \in Range(BandNames(img))
    THEN LET free == {k \in DOMAIN NumSuffix :
                         (band.name \o NumSuffix[k]) \notin Range(BandNames(img))}
             k == CHOOSE x \in free : \A y \in free : x <= y
         IN  [img EXCEPT !.bands =
                 img.bands \o <<Band(band.name \o NumSuffix[k], band.type)>>]
    ELSE [img EXCEPT !.bands = img.bands \o <<band>>]

\* addNDRS at band level: image.select('DRS') needs the DRS band; the new
\* band is NDRS with the suffix of the forest types.
addNDRS(img, forestTypes) ==
    IF img.kind = "error" THEN img
    ELSE IF "DRS" \notin Range(BandNames(img)) THEN ErrBandImage
    ELSE addBands(img, Band("NDRS" \o NDRSSuffix(forestTypes), "double"))

\* A normalisation that casts the bands but keeps QA_PIXEL.
NormaliseBands_keepQA(img) ==
    IF img.kind = "error" THEN img
    ELSE [img EXCEPT !.bands = WithType(BandNames(img), "float")]

\* The last map of the script: select the bands other than QA_PIXEL, toFloat.
NormaliseBands(img) ==
    IF img.kind = "error" THEN img
    ELSE [img EXCEPT !.bands =
             WithType(SelectSeq(BandNames(img), LAMBDA n : n # "QA_PIXEL"),
                      "float")]

LsInit ==
    /\ \/ /\ ls_origin = "ls_fn"
          /\ \E dl \in LsDateLists, ix \in IndexLists : ls_input = ls_fn(dl, ix)
       \/ /\ ls_origin = "any"
          /\ ls_input \in AnyCollections
    /\ ls = ls_input
    /\ lsPc = "ndrs_coni"
    /\ drive = <<>>

\* .map(function(image) { return addNDRS(image, [210]); })
MapNDRSConifer ==
    /\ lsPc = "ndrs_coni"
    /\ ls' = [i \in DOMAIN ls |-> addNDRS(ls[i], <<210>>)]
    /\ lsPc' = "ndrs_deci"
    /\ UNCHANGED <<ls_input, ls_origin, drive>>
    /\ UNCHANGED notLsVars

\* .map(function(image) { return addNDRS(image, [220]); })
MapNDRSBroadleaf ==
    /\ lsPc = "ndrs_deci"
    /\ ls' = [i \in DOMAIN ls |-> addNDRS(ls[i], <<220>>)]
    /\ lsPc' = "ndrs_all"
    /\ UNCHANGED <<ls_input, ls_origin, drive>>
    /\ UNCHANGED notLsVars

\* .map(function(image) { return addNDRS(image); })
MapNDRSAll ==
    /\ lsPc = "ndrs_all"
    /\ ls' = [i \in DOMAIN ls |-> addNDRS(ls[i], <<>>)]
    /\ lsPc' = "normalise"
    /\ UNCHANGED <<ls_input, ls_origin, drive>>
    /\ UNCHANGED notLsVars

\* .map(function(image) { ... select(filteredBandNames).toFloat() })
MapNormalise ==
    /\ lsPc = "normalise"
    /\ ls' = [i \in DOMAIN ls |-> NormaliseBands(ls[i])]
    /\ lsPc' = "done"
    /\ UNCHANGED <<ls_input, ls_origin, drive>>
    /\ UNCHANGED notLsVars

LsNext == MapNDRSConifer \/ MapNDRSBroadleaf \/ MapNDRSAll \/ MapNormalise

InitLs == LsInit /\ DateIdle /\ TsIdle /\ MosIdle /\ PxIdle /\ NdrsIdle /\ ParIdle

SpecLs == InitLs /\ [][LsNext]_vars

InputBandSetsDiffer ==
    \E i, j \in DOMAIN ls_input :
        Range(BandNames(ls_input[i])) # Range(BandNames(ls_input[j]))

\* C7: when two composites of the collection have different band sets the
\* normalisation ends in an error instead of passing the images through.
C7_BandMismatchFails ==
    (lsPc = "done" /\ InputBandSetsDiffer) =>
        \E i \in DOMAIN ls : ls[i].kind = "error"

(***************************************************************************)
(* Mosaic rasters by year (R script, serial loop) and                      *)
(* mosaic_rasters_in_list                                                  *)
(*                                                                         *)
(* A basename is a sequence of tokens: "_", "-", a run of digits, or other *)
(* text.  A mosaic is described by the set of tiles it was built from.     *)
(***************************************************************************)
MaxFiles == 3

\* The .tif files a directory may hold, in the order list.files returns them.
FilePool ==
    << <<"a", "_", "2019", "-", "06", ".tif">>,
       <<"b", "_", "2019", "-", "07", ".tif">>,
       <<"c", "_", "2020", "-", "01", ".tif">>,
       <<"d", ".tif">>,
       <<"e", "_", "2019", "-", "_", "2020", "-", ".tif">>,
       <<"f", "(", ".tif">> >>

FourDigits == {"2019", "2020"}

output_file_prefix == "sentinel2_mosaic_"

\* The sorted listings of at most MaxFiles files.
Listings ==
    {[k \in DOMAIN idx |-> FilePool[idx[k]]] :
        idx \in IncreasingLists(DOMAIN FilePool, MaxFiles, 1)}

MaxOf(S) == CHOOSE x \in S : \A y \in S : y <= x

\* The positions where "_" , four digits and "-" follow each other.
YearTokenPositions(name) ==
    {i \in 1..(Len(name) - 2) :
        name[i] = "_" /\ name[i + 1] \in FourDigits /\ name[i + 2] = "-"}

\* sub(".*_(\\d{4})-.*", "\\1", basename): the digits of the last match (the
\* leading .* is greedy); a name without a match is returned unchanged.
ExtractYear(name) ==
    IF YearTokenPositions(name) = {} THEN name
    ELSE <<name[MaxOf(YearTokenPositions(name)) + 1]>>

\* unique(): the first occurrences, in order.
RECURSIVE Unique(_)
Unique(seq) ==
    IF seq = <<>> THEN <<>>
    ELSE LET front == Unique(SubSeq(seq, 1, Len(seq) - 1))
             last == seq[Len(seq)]
         IN  IF last \in Range(front) THEN front ELSE Append(front, last)

\* grepl compiles its pattern as a regular expression: a pattern with an
\* unmatched "(" is an invalid regular expression, and grepl raises an error.
RegexValid(pat) == "(" \notin Range(pat)

\* grepl(paste0("_", year, "-"), basename)
GreplYear(year, name) ==
    LET pat == <<"_">> \o year \o <<"-">>
    IN  \E i \in 1..(Len(name) - Len(pat) + 1) :
            SubSeq(name, i, i + Len(pat) - 1) = pat

\* An export file name that does not depend on the year.
ExportFilename_noYear(year) == <<output_file_prefix, ".tif">>

\* file.path(output_directory, paste0(output_file_prefix, year, ".tif"))
ExportFilename(year) == <<output_file_prefix>> \o year \o <<".tif">>

MosInit ==
    /\ raster_files \in Listings
    /\ corrupt \in SUBSET Range(raster_files)
    /\ years = <<>>
    /\ yi = 0
    /\ year_files = <<>>
    /\ export_filename = <<>>
    /\ rsrc = <<>>
    /\ mosaicked = {}
    /\ disk = <<>>
    /\ progress = <<>>
    /\ mosPc = "years"

\* years <- unique(sub(..., basename(raster_files)))
ExtractYears ==
    /\ mosPc = "years"
    /\ years' = Unique([k \in DOMAIN raster_files |-> ExtractYear(raster_files[k])])
    /\ yi' = 1
    /\ mosPc' = "for"
    /\ UNCHANGED <<raster_files, corrupt, year_files, export_filename, rsrc,
                   mosaicked, disk, progress>>
    /\ UNCHANGED notMosVars

\* for (year in years): filter the files of the year (an invalid pattern
\* raises an error, which ends the script); skip the year when there are none; otherwise define the export filename and call
\* mosaic_rasters_in_list.
ForYear ==
    /\ mosPc = "for"
    /\ IF yi > Len(years)
       THEN /\ mosPc' = "done"
            /\ UNCHANGED <<yi, year_files, export_filename>>
       ELSE IF ~RegexValid(<<"_">> \o years[yi] \o <<"-">>)
       THEN /\ mosPc' = "aborted"
            /\ UNCHANGED <<yi, year_files, export_filename>>
       ELSE LET files == SelectSeq(raster_files,
                                   LAMBDA f : GreplYear(years[yi], f))
            IN  /\ year_files' = files
                /\ IF Len(files) = 0
                   THEN /\ yi' = yi + 1
                        /\ mosPc' = "for"
                        /\ UNCHANGED export_filename
                   ELSE /\ export_filename' = ExportFilename(years[yi])
                        /\ mosPc' = "check"
                        /\ UNCHANGED yi
    /\ UNCHANGED <<raster_files, corrupt, years, rsrc, mosaicked, disk, progress>>
    /\ UNCHANGED notMosVars

\* A step 1 that goes on to read the files whatever their number.
CheckFiles_noStop ==
    /\ mosPc = "check"
    /\ mosPc' = "sprc"
    /\ UNCHANGED <<raster_files, corrupt, years, yi, year_files,
                   export_filename, rsrc, mosaicked, disk, progress>>
    /\ UNCHANGED notMosVars

\* mosaic_rasters_in_list, step 1: stop when no files are provided.
CheckFiles ==
    /\ mosPc = "check"
    /\ mosPc' = IF Len(year_files) = 0 THEN "aborted" ELSE "sprc"
    /\ UNCHANGED <<raster_files, corrupt, years, yi, year_files,
                   export_filename, rsrc, mosaicked, disk, progress>>
    /\ UNCHANGED notMosVars

\* step 2: rsrc <- terra::sprc(raster_files); a tile that cannot be read
\* raises an error, which ends the script.
Sprc ==
    /\ mosPc = "sprc"
    /\ IF Range(year_files) \cap corrupt # {}
       THEN /\ mosPc' = "aborted"
            /\ UNCHANGED rsrc
       ELSE /\ rsrc' = year_files
            /\ mosPc' = "mosaic"
    /\ UNCHANGED <<raster_files, corrupt, years, yi, year_files,
                   export_filename, mosaicked, disk, progress>>
    /\ UNCHANGED notMosVars

\* step 3: m <- terra::mosaic(rsrc, fun = fun)
Mosaic ==
    /\ mosPc = "mosaic"
    /\ mosaicked' = Range(rsrc)
    /\ mosPc' = "rm"
    /\ UNCHANGED <<raster_files, corrupt, years, yi, year_files,
                   export_filename, rsrc, disk, progress>>
    /\ UNCHANGED notMosVars

\* A step 4 that keeps the collection in memory.
RmGc_keep ==
    /\ mosPc = "rm"
    /\ mosPc' = "write"
    /\ UNCHANGED <<raster_files, corrupt, years, yi, year_files,
                   export_filename, rsrc, mosaicked, disk, progress>>
    /\ UNCHANGED notMosVars

\* step 4: rm(rsrc); gc()
RmGc ==
    /\ mosPc = "rm"
    /\ rsrc' = <<>>
    /\ mosPc' = "write"
    /\ UNCHANGED <<raster_files, corrupt, years, yi, year_files,
                   export_filename, mosaicked, disk, progress>>
    /\ UNCHANGED notMosVars

\* step 5: terra::writeRaster(m, filename = export_filename, overwrite = TRUE)
WriteRaster ==
    /\ mosPc = "write"
    /\ disk' = [f \in DOMAIN disk \cup {export_filename} |->
                   IF f = export_filename THEN mosaicked ELSE disk[f]]
    /\ mosPc' = "cat"
    /\ UNCHANGED <<raster_files, corrupt, years, yi, year_files,
                   export_filename, rsrc, mosaicked, progress>>
    /\ UNCHANGED notMosVars

\* cat("Mosaic for year", year, "saved to:", export_filename), next year.
CatProgress ==
    /\ mosPc = "cat"
    /\ progress' = Append(progress, years[yi])
    /\ yi' = yi + 1
    /\ mosPc' = "for"
    /\ UNCHANGED <<raster_files, corrupt, years, year_files, export_filename,
                   rsrc, mosaicked, disk>>
    /\ UNCHANGED notMosVars

MosNext ==
    \/ ExtractYears \/ ForYear \/ CheckFiles \/ Sprc \/ Mosaic \/ RmGc
    \/ WriteRaster \/ CatProgress

InitMos == MosInit /\ DateIdle /\ TsIdle /\ LsIdle /\ PxIdle /\ NdrsIdle /\ ParIdle

SpecMos == InitMos /\ [][MosNext]_vars

(***************************************************************************)
(* Claims about failures of one unit of a run                              *)
(***************************************************************************)
FilesOfYear(y) == {f \in Range(raster_files) : GreplYear(y, f)}

\* C9: a failure while one year group is processed does not prevent the
\* other groups from being processed: at the end of the run every year group
\* that has files and no unreadable tile has its mosaic.
C9_FailureDoesNotStopOthers ==
    mosPc \in {"done", "aborted"} =>
        \A k \in DOMAIN years :
            (FilesOfYear(years[k]) # {} /\ FilesOfYear(years[k]) \cap corrupt = {})
                => ExportFilename(years[k]) \in DOMAIN disk

(***************************************************************************)
(* Pixel values                                                            *)
(*                                                                         *)
(* A band value at one pixel is an exact rational n/d ("num"), undefined   *)
(* (masked, "undef"), the square root of a rational ("sqrt"), the constant *)
(* epsilon = 1e-10 of addLAI ("eps"), or a finite value whose magnitude    *)
(* exceeds every clamp bound ("big": a quotient by epsilon).  Inputs lie   *)
(* on a grid of 0.05, so a denominator is either zero or at least 0.05 in  *)
(* magnitude, and adding epsilon to a non-zero denominator changes the     *)
(* quotient by less than one part in 10^8, which the values leave out.     *)
(***************************************************************************)
Abs(x) == IF x < 0 THEN -x ELSE x

Sign(x) == IF x < 0 THEN -1 ELSE IF x = 0 THEN 0 ELSE 1

RECURSIVE GCD(_, _)
GCD(a, b) == IF b = 0 THEN a ELSE GCD(b, a % b)

\* The rational n/d (d # 0) in lowest terms with a positive denominator.
Num(n, d) ==
    LET g == GCD(Abs(n), Abs(d))
    IN  [k |-> "num", n |-> (Sign(d) * n) \div g, d |-> Abs(d) \div g]

Undef == [k |-> "undef", n |-> 0, d |-> 1]

Big(sign) == [k |-> "big", n |-> sign, d |-> 1]

Eps == [k |-> "eps", n |-> 0, d |-> 1]

VNeg(a) ==
    IF a.k = "undef" THEN Undef
    ELSE IF a.k = "big" THEN Big(-a.n)
    ELSE Num(-a.n, a.d)

VAdd(a, b) ==
    IF a.k = "undef" \/ b.k = "undef" THEN Undef
    ELSE IF a.k = "big" THEN a
    ELSE IF b.k = "big" THEN b
    ELSE IF b.k = "eps" THEN (IF a.n = 0 THEN Eps ELSE a)
    ELSE Num(a.n * b.d + b.n * a.d, a.d * b.d)

VSub(a, b) == VAdd(a, VNeg(b))

VMul(a, b) ==
    IF a.k = "undef" \/ b.k = "undef" THEN Undef
    ELSE IF a.n = 0 \/ b.n = 0 THEN Num(0, 1)
    ELSE IF a.k = "big" \/ b.k = "big" THEN Big(Sign(a.n) * Sign(b.n))
    ELSE Num(a.n * b.n, a.d * b.d)

\* The '/' of image.expression (Image.divide): 0 for a division by 0.
VDiv(a, b) ==
    IF a.k = "undef" \/ b.k = "undef" THEN Undef
    ELSE IF b.k = "eps" THEN (IF a.n = 0 THEN Num(0, 1) ELSE Big(Sign(a.n)))
    ELSE IF b.n = 0 THEN Num(0, 1)
    ELSE IF a.k = "big" THEN Big(Sign(a.n) * Sign(b.n))
    ELSE Num(a.n * b.d, a.d * b.n)

VLt(a, b) == a.n * b.d < b.n * a.d

\* Image.clamp(lo, hi)
VClamp(v, lo, hi) ==
    IF v.k = "undef" THEN Undef
    ELSE IF v.k = "big" THEN (IF v.n > 0 THEN hi ELSE lo)
    ELSE IF VLt(v, lo) THEN lo
    ELSE IF VLt(hi, v) THEN hi
    ELSE v

\* sqrt(v)
VSqrt(v) ==
    IF v.k = "undef" THEN Undef
    ELSE IF v.n = 0 THEN Num(0, 1)
    ELSE [k |-> "sqrt", n |-> v.n, d |-> v.d]

InRange(v, lo, hi) == v.k = "num" /\ ~VLt(v, lo) /\ ~VLt(hi, v)

(***************************************************************************)
(* Landsat index functions at one pixel                                    *)
(*                                                                         *)
(* An image is a band list with, for every band, its value at the pixel.   *)
(***************************************************************************)
MaxApplied == 2

PixelImage(bs, vs) == [kind |-> "image", bands |-> bs, year |-> FirstYear, values |-> vs]

\* image.select(name): the value of the first band of that name.
Sel(img, name) ==
    LET idx == {i \in DOMAIN img.bands : img.bands[i].name = name}
    IN  img.values[CHOOSE i \in idx : \A j \in idx : i <= j]

\* image.addBands(band): the band list grows as addBands says, the value of
\* the new band comes last.
AddValueBand(img, name, v) ==
    [addBands(img, Band(name, "float")) EXCEPT !.values = Append(img.values, v)]

addBSI(img) ==
    LET NIR == Sel(img, "SR_B4")
        Red == Sel(img, "SR_B3")
        Blue == Sel(img, "SR_B1")
        SWIR == Sel(img, "SR_B5")
        BSI == VDiv(VSub(VAdd(Red, SWIR), VAdd(NIR, Blue)),
                    VAdd(VAdd(Red, SWIR), VAdd(NIR, Blue)))
    IN  AddValueBand(img, "BSI", BSI)

addDSWI(img) ==
    LET NIR == Sel(img, "SR_B4")
        Green == Sel(img, "SR_B2")
        SWIR == Sel(img, "SR_B5")
        Red == Sel(img, "SR_B3")
        DSWI == VDiv(VAdd(NIR, Green), VAdd(SWIR, Red))
        DSWI_clamped == VClamp(DSWI, Num(0, 1), Num(3, 1))
    IN  AddValueBand(img, "DSWI", DSWI_clamped)

addDRS(img) ==
    LET SWIR == Sel(img, "SR_B5")
        RED == Sel(img, "SR_B3")
        DRS == VSqrt(VAdd(VMul(RED, RED), VMul(SWIR, SWIR)))
    IN  AddValueBand(img, "DRS", DRS)

\* 2.5 * ((NIR - RED) / (NIR + 6 * RED - 7.5 * BLUE + 1 + extra))
EVIExpression(img, extra) ==
    LET NIR == Sel(img, "SR_B4")
        RED == Sel(img, "SR_B3")
        BLUE == Sel(img, "SR_B1")
        den == VAdd(VAdd(VSub(VAdd(NIR, VMul(Num(6, 1), RED)),
                              VMul(Num(15, 2), BLUE)),
                         Num(1, 1)),
                    extra)
    IN  VMul(Num(5, 2), VDiv(VSub(NIR, RED), den))

\* An addEVI that adds the band without clamping it.
addEVI_noClamp(img) == AddValueBand(img, "EVI", EVIExpression(img, Num(0, 1)))

addEVI(img) ==
    LET EVI == EVIExpression(img, Num(0, 1))
        EVI_clamped == VClamp(EVI, Num(-2, 1), Num(2, 1))
    IN  AddValueBand(img, "EVI", EVI_clamped)

\* 3.618 * (EVI) - 0.118 with epsilon in the denominator of EVI
LAIExpression(img) ==
    VSub(VMul(Num(3618, 1000), EVIExpression(img, Eps)), Num(118, 1000))

\* An addLAI without the clamp.
addLAI_noClamp(img) == AddValueBand(img, "LAI", LAIExpression(img))

addLAI(img) ==
    LET LAI == VClamp(LAIExpression(img), Num(0, 1), Num(10, 1))
    IN  AddValueBand(img, "LAI", LAI)

addNBR(img) ==
    LET NIR == Sel(img, "SR_B4")
        SWIR2 == Sel(img, "SR_B7")
    IN  AddValueBand(img, "NBR", VDiv(VSub(NIR, SWIR2), VAdd(NIR, SWIR2)))

addNDMI(img) ==
    LET NIR == Sel(img, "SR_B4")
        SWIR1 == Sel(img, "SR_B5")
    IN  AddValueBand(img, "NDMI", VDiv(VSub(NIR, SWIR1), VAdd(NIR, SWIR1)))

\* An addNDVI that returns the new band alone.
addNDVI_bandOnly(img) ==
    LET NIR == Sel(img, "SR_B4")
        Red == Sel(img, "SR_B3")
    IN  [img EXCEPT !.bands = <<Band("NDVI", "float")>>,
                    !.values = <<VDiv(VSub(NIR, Red), VAdd(NIR, Red))>>]

addNDVI(img) ==
    LET NIR == Sel(img, "SR_B4")
        Red == Sel(img, "SR_B3")
        NDVI == VDiv(VSub(NIR, Red), VAdd(NIR, Red))
    IN  AddValueBand(img, "NDVI", NDVI)

addSAVI(img) ==
    LET NIR == Sel(img, "SR_B4")
        R == Sel(img, "SR_B3")
        SAVI == VMul(VDiv(VSub(NIR, R), VAdd(VAdd(NIR, R), Num(428, 1000))),
                     Num(1428, 1000))
    IN  AddValueBand(img, "SAVI", SAVI)

addSI(img) ==
    LET blue == Sel(img, "SR_B1")
        green == Sel(img, "SR_B2")
        red == Sel(img, "SR_B3")
        one == Num(1, 1)
        SI == VMul(VMul(VSub(one, blue), VSub(one, green)), VSub(one, red))
    IN  AddValueBand(img, "SI", SI)

addRVI(img) ==
    LET NIR == Sel(img, "SR_B4")
        Red == Sel(img, "SR_B3")
        RVI == VDiv(NIR, Red)
        RVI_clamped == VClamp(RVI, Num(0, 1), Num(10, 1))
    IN  AddValueBand(img, "RVI", RVI_clamped)

\* The index functions, by the name of the band they compute.
IndexNames ==
    {"BSI", "DSWI", "DRS", "EVI", "LAI", "NBR", "NDMI", "NDVI", "SAVI", "SI",
     "RVI"}

ApplyIndex(X, img) ==
    CASE X = "BSI" -> addBSI(img)
      [] X = "DSWI" -> addDSWI(img)
      [] X = "DRS" -> addDRS(img)
      [] X = "EVI" -> addEVI(img)
      [] X = "LAI" -> addLAI(img)
      [] X = "NBR" -> addNBR(img)
      [] X = "NDMI" -> addNDMI(img)
      [] X = "NDVI" -> addNDVI(img)
      [] X = "SAVI" -> addSAVI(img)
      [] X = "SI" -> addSI(img)
      [] X = "RVI" -> addRVI(img)

RECURSIVE ApplyIndices(_, _)
ApplyIndices(Xs, img) ==
    IF Xs = <<>> THEN img
    ELSE ApplyIndex(Xs[Len(Xs)], ApplyIndices(SubSeq(Xs, 1, Len(Xs) - 1), img))

\* Surface reflectance after applyScaleFactors, in tenths.
ReflectanceBands == <<"SR_B1", "SR_B2", "SR_B3", "SR_B4", "SR_B5", "SR_B7">>

ReflectanceChoices ==
    [SR_B1 : {0, 2}, SR_B2 : {1, 5}, SR_B3 : {-1, 0, 1}, SR_B4 : {0, 6, 12},
     SR_B5 : {0, 3}, SR_B7 : {2}]

ReflectanceImages ==
    {PixelImage(WithType(ReflectanceBands, "double"),
                <<Num(r.SR_B1, 10), Num(r.SR_B2, 10), Num(r.SR_B3, 10),
                  Num(r.SR_B4, 10), Num(r.SR_B5, 10), Num(r.SR_B7, 10)>>) :
        r \in ReflectanceChoices}

IdxInit ==
    /\ image_in \in ReflectanceImages
    /\ image = image_in
    /\ applied = <<>>

\* image = addX(image), for any index function addX
CallIndex(X) ==
    /\ Len(applied) < MaxApplied
    /\ image' = ApplyIndex(X, image)
    /\ applied' = Append(applied, X)
    /\ UNCHANGED image_in
    /\ UNCHANGED notPxVars

IdxNext == \E X \in IndexNames : CallIndex(X)

InitIdx == IdxInit /\ DateIdle /\ TsIdle /\ LsIdle /\ MosIdle /\ NdrsIdle /\ ParIdle

SpecIdx == InitIdx /\ [][IdxNext]_vars

(***************************************************************************)
(* Claims about the index functions                                        *)
(***************************************************************************)
\* The value of the band added by the j-th call.
AddedValue(j) == image.values[Len(ReflectanceBands) + j]

AddedName(j) == image.bands[Len(ReflectanceBands) + j].name

\* The image the last call was given.
ImageBeforeLast == ApplyIndices(SubSeq(applied, 1, Len(applied) - 1), image_in)

\* C11: for finite band values the EVI band lies in [-2, 2], the DSWI band
\* in [0, 3] and the RVI band in [0, 10].
C11_ClampedRanges ==
    \A j \in DOMAIN applied :
        /\ applied[j] = "EVI" => InRange(AddedValue(j), Num(-2, 1), Num(2, 1))
        /\ applied[j] = "DSWI" => InRange(AddedValue(j), Num(0, 1), Num(3, 1))
        /\ applied[j] = "RVI" => InRange(AddedValue(j), Num(0, 1), Num(10, 1))

\* A pixel whose unclamped EVI is above 2 has the EVI band 2.
C11_Witness ==
    /\ applied = <<"EVI">>
    /\ VLt(Num(2, 1), EVIExpression(image_in, Num(0, 1)))
    /\ AddedValue(1) = Num(2, 1)

\* The documented formula of an index that is not clamped.
DocumentedFormula(X, img) ==
    LET Blue == Sel(img, "SR_B1")
        Red == Sel(img, "SR_B3")
        NIR == Sel(img, "SR_B4")
        SWIR == Sel(img, "SR_B5")
        SWIR2 == Sel(img, "SR_B7")
    IN  CASE X = "NDVI" -> VDiv(VSub(NIR, Red), VAdd(NIR, Red))
          [] X = "NBR" -> VDiv(VSub(NIR, SWIR2), VAdd(NIR, SWIR2))
          [] X = "NDMI" -> VDiv(VSub(NIR, SWIR), VAdd(NIR, SWIR))
          [] X = "SAVI" -> VMul(VDiv(VSub(NIR, Red),
                                     VAdd(VAdd(NIR, Red), Num(428, 1000))),
                                Num(1428, 1000))
          [] X = "BSI" -> VDiv(VSub(VAdd(Red, SWIR), VAdd(NIR, Blue)),
                               VAdd(VAdd(Red, SWIR), VAdd(NIR, Blue)))
          [] X = "LAI" -> VSub(VMul(Num(3618, 1000),
                                    EVIExpression(img, Num(0, 1))),
                               Num(118, 1000))

Unclamped == {"NDVI", "NBR", "NDMI", "SAVI", "BSI"}

\* C12 as stated: every index function other than EVI, DSWI and RVI returns
\* the value of its documented formula with no bound applied; in particular
\* LAI = 3.618 * EVI - 0.118.
C12_OnlyThreeClamp ==
    \A j \in DOMAIN applied :
        applied[j] \in Unclamped \cup {"LAI"} =>
            AddedValue(j) = DocumentedFormula(applied[j], image_in)

\* C12 amended: NDVI, NBR, NDMI, SAVI and BSI return the value of their
\* formula unbounded; LAI is 3.618 * EVI - 0.118 (EVI unclamped, epsilon
\* added to its denominator) clamped to [0, 10].
C12_LAIClampedToo ==
    \A j \in DOMAIN applied :
        /\ applied[j] \in Unclamped =>
               AddedValue(j) = DocumentedFormula(applied[j], image_in)
        /\ applied[j] = "LAI" =>
               /\ InRange(AddedValue(j), Num(0, 1), Num(10, 1))
               /\ EVIExpression(image_in, Eps).k = "num" =>
                      AddedValue(j) = VClamp(DocumentedFormula("LAI", image_in),
                                             Num(0, 1), Num(10, 1))

\* An LAI band whose formula value is negative and whose band value is 0,
\* next to an NDVI above 1 left as it is.
C12_Witness ==
    /\ applied = <<"LAI", "NDVI">>
    /\ VLt(DocumentedFormula("LAI", image_in), Num(0, 1))
    /\ AddedValue(1) = Num(0, 1)
    /\ VLt(Num(1, 1), AddedValue(2))

\* The name addBands gives a new band X on an image.
NameOnImage(X, img) ==
    IF X \notin Range(BandNames(img)) THEN X
    ELSE LET free == {k \in DOMAIN NumSuffix :
                         (X \o NumSuffix[k]) \notin Range(BandNames(img))}
         IN  X \o NumSuffix[CHOOSE k \in free : \A y \in free : k <= y]

\* The bands and values of the input are those of the output, in order.
InputKept(before, after) ==
    /\ Len(after.bands) = Len(before.bands) + 1
    /\ SubSeq(after.bands, 1, Len(before.bands)) = before.bands
    /\ SubSeq(after.values, 1, Len(before.values)) = before.values

\* C13 as stated: addX returns the input's bands unchanged, followed by
\* exactly one new band named X.
C13_AppendsBandNamedX ==
    applied # <<>> =>
        /\ InputKept(ImageBeforeLast, image)
        /\ AddedName(Len(applied)) = applied[Len(applied)]

\* C13 amended: addX returns the input's bands unchanged, followed by
\* exactly one new band, named X when the input has no band X and X with a
\* numerical suffix otherwise.
C13_AppendOnly ==
    applied # <<>> =>
        /\ InputKept(ImageBeforeLast, image)
        /\ AddedName(Len(applied)) =
               NameOnImage(applied[Len(applied)], ImageBeforeLast)

\* An index function applied to an image that already has its band.
C13_Witness ==
    /\ applied = <<"NDVI", "NDVI">>
    /\ BandNames(image) = ReflectanceBands \o <<"NDVI", "NDVI_1">>

(***************************************************************************)
(* addNDRS over the pixels of an image                                     *)
(*                                                                         *)
(* The image given to addNDRS has a DRS band with a value per pixel and a  *)
(* year property; the annual land-cover product has one classification per *)
(* year up to its last year.                                               *)
(***************************************************************************)
NdrsPixels == {"p1", "p2", "p3"}

\* Coniferous, broadleaf and water.
LcClasses == {210, 220, 20}

DRSValues == {Undef, Num(1, 10), Num(2, 10), Num(3, 10)}

NdrsYears == (FirstYear - 1)..(FirstYear + 1)

\* The forestTypes arguments; <<>> is an omitted argument.
ForestTypeChoices == {<<210>>, <<220>>, <<230>>, <<210, 220>>, <<>>}

\* The years the land-cover product holds.
LcProductYears == (FirstYear - 2)..FirstYear

\* forest_lc.lc_fn(startDate, endDate, aoi): the classifications of the
\* years of the period, oldest first.
lc_fn(startYear, endYear, classes) ==
    LET ys == {y \in LcProductYears : startYear <= y /\ y <= endYear}
        RECURSIVE Ordered(_)
        Ordered(S) ==
            IF S = {} THEN <<>>
            ELSE LET y == CHOOSE x \in S : \A z \in S : x <= z
                 IN  <<[year |-> y, forest_lc_class |-> classes]>>
                         \o Ordered(S \ {y})
    IN  Ordered(ys)

\* A period that always follows the year of the image.
LandcoverPeriod_noCap(year) == <<year, year>>

\* startDate and endDate: the year of the image, or 2019 from 2019 on.
LandcoverPeriod(year) ==
    IF year >= 2019 THEN <<2019, 2019>> ELSE <<year, year>>

\* landcoverImage.remap(forestTypes, ee.List.repeat(1, n), 0)
forestMask(landcoverImage, forestTypes) ==
    LET types == IF forestTypes = <<>> THEN <<210, 220, 230>> ELSE forestTypes
    IN  [p \in NdrsPixels |->
            IF landcoverImage.forest_lc_class[p] \in Range(types) THEN 1 ELSE 0]

\* DRS.updateMask(forestMask)
maskedDRS(DRS, mask) ==
    [p \in NdrsPixels |-> IF mask[p] = 1 THEN DRS[p] ELSE Undef]

\* reduceRegion(ee.Reducer.minMax()): null when no pixel is unmasked.
minMax(band) ==
    LET vals == {band[p] : p \in {q \in NdrsPixels : band[q] # Undef}}
    IN  IF vals = {} THEN [DRS_min |-> Undef, DRS_max |-> Undef]
        ELSE [DRS_min |-> CHOOSE v \in vals : \A w \in vals : ~VLt(w, v),
              DRS_max |-> CHOOSE v \in vals : \A w \in vals : ~VLt(v, w)]

\* An adjustment that leaves DRS as it is.
adjustedDRS_noClamp(DRS, DRSmin, DRSmax) == DRS

\* DRS.clamp(DRSmin, DRSmax)
adjustedDRS(DRS, DRSmin, DRSmax) ==
    [p \in NdrsPixels |-> VClamp(DRS[p], DRSmin, DRSmax)]

\* An evaluation error, after the land cover of year y was read (0: none).
NdrsError(y) == [kind |-> "error", name |-> "", values |-> <<>>, lcYear |-> y]

\* addNDRS: the land cover read, the band name and the NDRS values.  A
\* land-cover collection without image, and a clamp with null bounds, raise
\* an error.
NDRSBand(img, forestTypes, classes) ==
    LET period == LandcoverPeriod(img.year)
        lcCollection == lc_fn(period[1], period[2], classes)
    IN  IF lcCollection = <<>> THEN NdrsError(0)
        ELSE LET landcoverImage == lcCollection[1]
                 mask == forestMask(landcoverImage, forestTypes)
                 mm == minMax(maskedDRS(img.DRS, mask))
                 DRSmin == mm.DRS_min
                 DRSmax == mm.DRS_max
             IN  IF DRSmin = Undef THEN NdrsError(landcoverImage.year)
                 ELSE LET adj == adjustedDRS(img.DRS, DRSmin, DRSmax)
                      IN  [kind |-> "image",
                           name |-> "NDRS" \o NDRSSuffix(forestTypes),
                           values |-> [p \in NdrsPixels |->
                                          VDiv(VSub(adj[p], DRSmin),
                                               VSub(DRSmax, DRSmin))],
                           lcYear |-> landcoverImage.year]

NdrsInit ==
    /\ ndrs_in \in [year : NdrsYears, DRS : [NdrsPixels -> DRSValues],
                    classes : [NdrsPixels -> LcClasses],
                    forestTypes : ForestTypeChoices]
    /\ ndrs_out = <<>>

\* addNDRS(image, forestTypes)
CallAddNDRS ==
    /\ ndrs_out = <<>>
    /\ ndrs_out' = NDRSBand(ndrs_in, ndrs_in.forestTypes, ndrs_in.classes)
    /\ UNCHANGED ndrs_in
    /\ UNCHANGED notNdrsVars

NdrsNext == CallAddNDRS

InitNdrs == NdrsInit /\ DateIdle /\ TsIdle /\ LsIdle /\ MosIdle /\ PxIdle /\ ParIdle

SpecNdrs == InitNdrs /\ [][NdrsNext]_vars

(***************************************************************************)
(* Claims about addNDRS                                                    *)
(***************************************************************************)
\* The pixels whose land-cover class is in the requested forest types and
\* whose DRS is defined.
ForestPixels ==
    LET types == IF ndrs_in.forestTypes = <<>> THEN {210, 220, 230}
                 ELSE Range(ndrs_in.forestTypes)
    IN  {p \in NdrsPixels : ndrs_in.classes[p] \in types /\ ndrs_in.DRS[p] # Undef}

ForestMin ==
    CHOOSE v \in {ndrs_in.DRS[p] : p \in ForestPixels} :
        \A q \in ForestPixels : ~VLt(ndrs_in.DRS[q], v)

ForestMax ==
    CHOOSE v \in {ndrs_in.DRS[p] : p \in ForestPixels} :
        \A q \in ForestPixels : ~VLt(v, ndrs_in.DRS[q])

\* C14: NDRS = (clamp(DRS, min, max) - min) / (max - min) with min and max
\* taken over the forest pixels; when max > min every defined NDRS pixel lies
\* in [0, 1], is 0 where DRS <= min and 1 where DRS >= max.
C14_NDRSNormalised ==
    (ndrs_out # <<>> /\ ForestPixels # {} /\ VLt(ForestMin, ForestMax)) =>
        /\ ndrs_out.kind = "image"
        /\ \A p \in NdrsPixels :
              LET d == ndrs_in.DRS[p]
                  v == ndrs_out.values[p]
              IN  IF d = Undef THEN v = Undef
                  ELSE /\ InRange(v, Num(0, 1), Num(1, 1))
                       /\ v = VDiv(VSub(VClamp(d, ForestMin, ForestMax), ForestMin),
                                   VSub(ForestMax, ForestMin))
                       /\ ~VLt(ForestMin, d) => v = Num(0, 1)
                       /\ ~VLt(d, ForestMax) => v = Num(1, 1)

\* A pixel outside the forest whose DRS is above the forest maximum gets 1.
C14_Witness ==
    /\ ndrs_out # <<>>
    /\ ForestPixels # {}
    /\ VLt(ForestMin, ForestMax)
    /\ \E p \in NdrsPixels \ ForestPixels :
          /\ ndrs_in.DRS[p] # Undef
          /\ VLt(ForestMax, ndrs_in.DRS[p])
          /\ ndrs_out.values[p] = Num(1, 1)

\* C15: with no forest pixel, and with min = max, the NDRS band is added with
\* every pixel undefined and no error is raised.
C15_DegenerateUndefined ==
    (ndrs_out # <<>> /\ (ForestPixels = {} \/ ForestMin = ForestMax)) =>
        /\ ndrs_out.kind = "image"
        /\ \A p \in NdrsPixels : ndrs_out.values[p] = Undef

\* C16: the land cover read is that of the image's year before 2019 and that
\* of 2019 from 2019 on.
C16_LandcoverYear ==
    ndrs_out # <<>> =>
        ndrs_out.lcYear = IF ndrs_in.year < 2019 THEN ndrs_in.year ELSE 2019

\* An image of a year after 2019 was given the land cover of 2019.
C16_Witness ==
    /\ ndrs_out # <<>>
    /\ ndrs_in.year > 2019
    /\ ndrs_out.kind = "image"
    /\ ndrs_out.lcYear = 2019

(***************************************************************************)
(* The name of the band addNDRS adds, over successive calls                *)
(***************************************************************************)
MaxCalls == 3

RECURSIVE ApplyNDRS(_, _)
ApplyNDRS(fts, img) ==
    IF fts = <<>> THEN img
    ELSE addNDRS(ApplyNDRS(SubSeq(fts, 1, Len(fts) - 1), img), fts[Len(fts)])

NamesInit ==
    /\ image_in \in {ls_fn(<<FirstYear>>, idx)[1] : idx \in IndexLists}
    /\ image = image_in
    /\ applied = <<>>

\* image = addNDRS(image, forestTypes)
CallAddNDRSNamed(forestTypes) ==
    /\ Len(applied) < MaxCalls
    /\ image' = addNDRS(image, forestTypes)
    /\ applied' = Append(applied, forestTypes)
    /\ UNCHANGED image_in
    /\ UNCHANGED notPxVars

NamesNext == \E forestTypes \in ForestTypeChoices : CallAddNDRSNamed(forestTypes)

InitNames == NamesInit /\ DateIdle /\ TsIdle /\ LsIdle /\ MosIdle /\ NdrsIdle /\ ParIdle

SpecNames == InitNames /\ [][NamesNext]_vars

\* The band name the claim gives for a forestTypes argument.
ClaimedNDRSName(forestTypes) ==
    IF forestTypes = <<210>> THEN "NDRS_coni"
    ELSE IF forestTypes = <<220>> THEN "NDRS_deci"
    ELSE "NDRS_mixed"

MaxMasks == 2

MaskImage(sensor, names, vs, valid, lc) ==
    [kind |-> "image", sensor |-> sensor, bands |-> WithType(names, "int16"),
     values |-> vs, valid |-> valid, lc |-> lc]

\* image.updateMask(mask): the pixel stays valid where it was valid and the
\* mask is non-zero.
updateMask(img, mask) == [img EXCEPT !.valid = img.valid /\ mask]

\* image.divide(10000): every band is divided.
divide(img, by) ==
    [img EXCEPT !.values =
        [i \in DOMAIN img.values |-> VDiv(img.values[i], Num(by, 1))]]

\* qa.bitwiseAnd(1 << k).eq(0)
BitClear(v, k) == ~(v.k = "num" /\ v.d = 1 /\ v.n >= 0 /\ BitSet(v.n, k))

maskS2cloudsPixel(img) ==
    LET qa == Sel(img, "QA60")
        mask == BitClear(qa, 10) /\ BitClear(qa, 11)
    IN  divide(updateMask(img, mask), 10000)

maskS2snow(img) ==
    LET scl == Sel(img, "SCL")
        nonSnowMask == scl # Num(11, 1)
    IN  updateMask(img, nonSnowMask)

MaskS2vegetation(img) ==
    LET scl == Sel(img, "SCL")
        vegetationMask == scl = Num(4, 1)
    IN  updateMask(img, vegetationMask)

maskS2water(img) ==
    LET scl == Sel(img, "SCL")
        wantedPixels == scl # Num(6, 1)
    IN  updateMask(img, wantedPixels)

maskByLandcover(img) ==
    LET mask == img.lc = 210
    IN  updateMask(img, mask)

\* A cloud and snow mask that does not look at the snow bit.
mask_cloud_snowPixel_noSnow(img) ==
    LET qa == Sel(img, "QA_PIXEL")
        mask == BitClear(qa, 3) /\ BitClear(qa, 4)
    IN  updateMask(img, mask)

mask_cloud_snowPixel(img) ==
    LET qa == Sel(img, "QA_PIXEL")
        mask == BitClear(qa, 3) /\ BitClear(qa, 4) /\ BitClear(qa, 5)
    IN  updateMask(img, mask)

mask_cloud(img) ==
    LET qa == Sel(img, "QA_PIXEL")
        mask == BitClear(qa, 3) /\ BitClear(qa, 4)
    IN  updateMask(img, mask)

\* The mask functions that find their bands on an image of the sensor.
MaskNames(sensor) ==
    IF sensor = "S2"
    THEN {"maskS2clouds", "maskS2snow", "MaskS2vegetation", "maskS2water",
          "maskByLandcover"}
    ELSE {"mask_cloud_snow", "mask_cloud", "maskByLandcover"}

ApplyMask(f, img) ==
    CASE f = "maskS2clouds" -> maskS2cloudsPixel(img)
      [] f = "maskS2snow" -> maskS2snow(img)
      [] f = "MaskS2vegetation" -> MaskS2vegetation(img)
      [] f = "maskS2water" -> maskS2water(img)
      [] f = "maskByLandcover" -> maskByLandcover(img)
      [] f = "mask_cloud_snow" -> mask_cloud_snowPixel(img)
      [] f = "mask_cloud" -> mask_cloud(img)

RECURSIVE ApplyMasks(_, _)
ApplyMasks(fs, img) ==
    IF fs = <<>> THEN img
    ELSE ApplyMask(fs[Len(fs)], ApplyMasks(SubSeq(fs, 1, Len(fs) - 1), img))

S2PixelImages ==
    {MaskImage("S2", <<"B4", "QA60", "SCL">>,
               <<Num(b4, 1), Num(qa, 1), Num(scl, 1)>>, valid, lc) :
        b4 \in {0, 2500}, qa \in {0, 1024, 2048}, scl \in {4, 6, 11},
        valid \in BOOLEAN, lc \in {210, 220}}

LandsatPixelImages ==
    {MaskImage("Landsat", <<"SR_B4", "QA_PIXEL">>,
               <<Num(b4, 1), Num(qa, 1)>>, valid, lc) :
        b4 \in {0, 20000},
        qa \in {0, 8, 16, 24, 32, 40, 48, 56, 1, 64, 21824},
        valid \in BOOLEAN, lc \in {210, 220}}

MaskInit ==
    /\ image_in \in S2PixelImages \cup LandsatPixelImages
    /\ image = image_in
    /\ applied = <<>>

\* image = f(image) for a mask function f not applied yet
CallMask(f) ==
    /\ Len(applied) < MaxMasks
    /\ f \in MaskNames(image.sensor) \ Range(applied)
    /\ image' = ApplyMask(f, image)
    /\ applied' = Append(applied, f)
    /\ UNCHANGED image_in
    /\ UNCHANGED notPxVars

MaskNext == \E f \in MaskNames("S2") \cup MaskNames("Landsat") : CallMask(f)

InitMask == MaskInit /\ DateIdle /\ TsIdle /\ LsIdle /\ MosIdle /\ NdrsIdle /\ ParIdle

SpecMask == InitMask /\ [][MaskNext]_vars

(***************************************************************************)
(* Claims about the mask functions                                         *)
(***************************************************************************)
\* Same bands, same validity and, where valid, the same values.
SameImage(a, b) ==
    /\ a.bands = b.bands
    /\ a.valid = b.valid
    /\ a.valid => a.values = b.values

\* C18: two mask functions applied in either order yield the same image.
C18_MasksCommute ==
    Len(applied) = 2 =>
        SameImage(image, ApplyMask(applied[1], ApplyMask(applied[2], image_in)))

\* C19: a mask function changes only the validity: same bands, validity only
\* shrinks, and a pixel that stays valid keeps the value of every band.
C19_MaskChangesValidityOnly ==
    applied # <<>> =>
        LET before == ApplyMasks(SubSeq(applied, 1, Len(applied) - 1), image_in)
        IN  /\ image.bands = before.bands
            /\ image.valid => before.valid
            /\ image.valid => image.values = before.values

(***************************************************************************)
(* The mosaic functions called on their own                                *)
(*                                                                         *)
(* mosaic_rasters and mosaic_rasters_in_directory list the .tif files of a *)
(* directory (raster_files holds the directory's files, year_files the     *)
(* list fl); mosaic_rasters_in_list is given the list.  The steps after    *)
(* the listing are those of mosaic_rasters_in_list.                        *)
(***************************************************************************)
DirectoryPool == FilePool \o << <<"notes", ".txt">> >>

\* The sorted contents of a directory of at most MaxFiles files.
DirectoryListings ==
    {[k \in DOMAIN idx |-> DirectoryPool[idx[k]]] :
        idx \in IncreasingLists(DOMAIN DirectoryPool, MaxFiles, 1)}

\* list.files(pattern = '\\.tif$')
TifFiles(files) == SelectSeq(files, LAMBDA f : f[Len(f)] = ".tif")

ExportFile == <<"all_landsat", ".tif">>

\* The export file is absent, or there from an earlier run.
EarlierDisks == {<<>>, [f \in {ExportFile} |-> {<<"earlier">>}]}

MosFnInit ==
    /\ mosPc \in {"mosaic_rasters", "mosaic_rasters_in_directory",
                  "mosaic_rasters_in_list"}
    /\ raster_files \in IF mosPc = "mosaic_rasters_in_list" THEN Listings
                        ELSE DirectoryListings
    /\ corrupt \in SUBSET Range(raster_files)
    /\ export_filename = ExportFile
    /\ disk \in EarlierDisks
    /\ years = <<>>
    /\ yi = 0
    /\ year_files = <<>>
    /\ rsrc = <<>>
    /\ mosaicked = {}
    /\ progress = <<>>

\* mosaic_rasters / mosaic_rasters_in_directory, step 1: fl <- list.files(...)
ListTifFiles ==
    /\ mosPc \in {"mosaic_rasters", "mosaic_rasters_in_directory"}
    /\ year_files' = TifFiles(raster_files)
    /\ mosPc' = "check"
    /\ UNCHANGED <<raster_files, corrupt, years, yi, export_filename, rsrc,
                   mosaicked, disk, progress>>
    /\ UNCHANGED notMosVars

\* mosaic_rasters_in_list(raster_files, export_filename)
EnterInList ==
    /\ mosPc = "mosaic_rasters_in_list"
    /\ year_files' = raster_files
    /\ mosPc' = "check"
    /\ UNCHANGED <<raster_files, corrupt, years, yi, export_filename, rsrc,
                   mosaicked, disk, progress>>
    /\ UNCHANGED notMosVars

\* return(m)
ReturnMosaic ==
    /\ mosPc = "cat"
    /\ mosPc' = "returned"
    /\ UNCHANGED <<raster_files, corrupt, years, yi, year_files,
                   export_filename, rsrc, mosaicked, disk, progress>>
    /\ UNCHANGED notMosVars

MosFnNext ==
    \/ ListTifFiles \/ EnterInList \/ CheckFiles \/ Sprc \/ Mosaic \/ RmGc
    \/ WriteRaster \/ ReturnMosaic

InitMosFn == MosFnInit /\ DateIdle /\ TsIdle /\ LsIdle /\ PxIdle /\ NdrsIdle /\ ParIdle

SpecMosFn == InitMosFn /\ [][MosFnNext]_vars

\* C20: with zero input files a mosaic function stops with an error at its
\* check: no raster is read, no mosaic is built and the export file is
\* neither created nor overwritten.
C20_NoInputStops ==
    (TifFiles(raster_files) = <<>>
        /\ mosPc \notin {"mosaic_rasters", "mosaic_rasters_in_directory",
                         "mosaic_rasters_in_list"}) =>
        /\ mosPc \in {"check", "aborted"}
        /\ rsrc = <<>>
        /\ mosaicked = {}
        /\ disk \in EarlierDisks

\* A directory without .tif file, with an export file of an earlier run: the
\* function has stopped and the file is as it was.
C20_Witness ==
    /\ raster_files = << <<"notes", ".txt">> >>
    /\ mosPc = "aborted"
    /\ disk # <<>>

(***************************************************************************)
(* Claims about the grouping by year                                       *)
(***************************************************************************)
\* C21: a run that reaches its end has written exactly one mosaic per year
\* token _YYYY- found in the file names, named <prefix><year>.tif and built
\* from exactly the files whose name carries that token.
C21_OneMosaicPerYearToken ==
    mosPc = "done" =>
        /\ \A y \in FourDigits :
               IF FilesOfYear(<<y>>) # {}
               THEN /\ ExportFilename(<<y>>) \in DOMAIN disk
                    /\ disk[ExportFilename(<<y>>)] = FilesOfYear(<<y>>)
               ELSE ExportFilename(<<y>>) \notin DOMAIN disk
        /\ DOMAIN disk \subseteq {ExportFilename(<<y>>) : y \in FourDigits}

\* The files whose basename contains a _YYYY- token.
Tokened(files) == SelectSeq(files, LAMBDA f : YearTokenPositions(f) # {})

\* The years of a listing that have files, and the output of a run that
\* mosaics each of them: export file name |-> tiles of the mosaic.
YearsOf(files) ==
    {y \in Range(Unique([k \in DOMAIN files |-> ExtractYear(files[k])])) :
        \E f \in Range(files) : GreplYear(y, f)}

GroupDisk(files) ==
    [n \in {ExportFilename(y) : y \in YearsOf(files)} |->
        LET y == CHOOSE z \in YearsOf(files) : ExportFilename(z) = n
        IN  {f \in Range(files) : GreplYear(y, f)}]

\* C22: a .tif file without _YYYY- token raises no error (a run whose tiles
\* are all readable does not stop early), and the run ends with the output
\* it has for the other files alone: the file is in no mosaic and has no
\* output file of its own.
C22_UntokenedFileIgnored ==
    corrupt = {} =>
        /\ mosPc # "aborted"
        /\ mosPc = "done" => disk = GroupDisk(Tokened(raster_files))

(***************************************************************************)
(* Repeated calls of the mosaic functions on one file system               *)
(*                                                                         *)
(* disk holds every file: the tiles of the directory (a tile's content is  *)
(* the tile itself) and what the calls write.  yi counts the calls.        *)
(***************************************************************************)
MaxRuns == 2

\* An export file elsewhere than in the directory of the tiles.
OutsideExport == <<"out/", "all_landsat", ".tif">>

\* list.files(path_name, recursive = TRUE): the files below the directory.
DirectoryFiles(d) ==
    SelectSeq(DirectoryPool \o <<ExportFile>>, LAMBDA f : f \in DOMAIN d)

MosCallsInit ==
    /\ mosPc \in {"mosaic_rasters", "mosaic_rasters_in_directory",
                  "mosaic_rasters_in_list"}
    /\ raster_files \in Listings
    /\ corrupt = {}
    /\ export_filename \in {ExportFile, OutsideExport} \cup Range(raster_files)
    /\ disk = [f \in Range(raster_files) |-> {f}]
    /\ years = <<>>
    /\ yi = 1
    /\ year_files = <<>>
    /\ rsrc = <<>>
    /\ mosaicked = {}
    /\ progress = <<>>

\* The function is called once more, with the same export_filename: a
\* directory function on the directory as it is now, mosaic_rasters_in_list
\* on the same list.
CallAgain(fn) ==
    /\ mosPc = "returned"
    /\ yi < MaxRuns
    /\ yi' = yi + 1
    /\ raster_files' = IF fn = "mosaic_rasters_in_list" THEN raster_files
                       ELSE DirectoryFiles(disk)
    /\ mosPc' = fn
    /\ UNCHANGED <<corrupt, years, year_files, export_filename, rsrc,
                   mosaicked, disk, progress>>
    /\ UNCHANGED notMosVars

MosCallsNext ==
    \/ ListTifFiles \/ EnterInList \/ CheckFiles \/ Sprc \/ Mosaic \/ RmGc
    \/ WriteRaster \/ ReturnMosaic
    \/ \E fn \in {"mosaic_rasters", "mosaic_rasters_in_directory",
                  "mosaic_rasters_in_list"} : CallAgain(fn)

InitMosCalls ==
    MosCallsInit /\ DateIdle /\ TsIdle /\ LsIdle /\ PxIdle /\ NdrsIdle /\ ParIdle

SpecMosCalls == InitMosCalls /\ [][MosCallsNext]_vars

\* C23: the write of a call changes the export file only, and the export file
\* is none of the files the call has read as input.
C23_OnlyExportWritten ==
    [][(mosPc = "write" /\ mosPc' = "cat") =>
          /\ export_filename \notin Range(year_files)
          /\ \A f \in DOMAIN disk \ {export_filename} : disk'[f] = disk[f]]_vars

(***************************************************************************)
(* Mosaic rasters by year, parallel variant                                *)
(*                                                                         *)
(* parLapply(cl, years, mosaic_by_year): one task per element of years.    *)
(* parLapply splits years into consecutive chunks, one per worker; a       *)
(* worker runs the tasks of its chunk one after the other, the workers run *)
(* side by side.  A task is mosaic_by_year followed by the steps of        *)
(* mosaic_rasters_in_list, on variables of its own; the write of the       *)
(* export file takes time (it starts and it finishes).  An error in a task *)
(* ends the chunk of its worker (the tasks behind it are not run) and is   *)
(* returned to the master, where parLapply raises it once the workers are  *)
(* done: the script ends there.                                            *)
(***************************************************************************)
NumWorkers == 2

QueuedTask(w) ==
    [pc |-> "queued", worker |-> w, year_files |-> <<>>,
     export_filename |-> <<>>, rsrc |-> <<>>, mosaicked |-> {}]

\* The splits of n tasks into consecutive chunks: task |-> worker.
Chunkings(n) ==
    {w \in [1..n -> 1..NumWorkers] :
        \A i, j \in 1..n : i <= j => w[i] <= w[j]}

Running(i) == tasks[i].pc \notin {"queued", "null", "returned", "error"}

\* The next task of its worker's chunk: the tasks before it have returned.
Startable(i) ==
    /\ tasks[i].pc = "queued"
    /\ \A j \in 1..(i - 1) :
          tasks[j].worker = tasks[i].worker => tasks[j].pc \in {"null", "returned"}

ParInit ==
    /\ raster_files \in Listings
    /\ corrupt \in SUBSET Range(raster_files)
    /\ years = <<>>
    /\ yi = 0
    /\ year_files = <<>>
    /\ export_filename = <<>>
    /\ rsrc = <<>>
    /\ mosaicked = {}
    /\ disk = <<>>
    /\ progress = <<>>
    /\ mosPc = "years"
    /\ tasks = <<>>
    /\ cl = "running"

\* years <- unique(sub(...)); clusterExport; parLapply hands out the tasks.
ParExtractYears ==
    /\ mosPc = "years"
    /\ years' = Unique([k \in DOMAIN raster_files |-> ExtractYear(raster_files[k])])
    /\ \E w \in Chunkings(Len(years')) :
          tasks' = [i \in DOMAIN years' |-> QueuedTask(w[i])]
    /\ mosPc' = "parLapply"
    /\ UNCHANGED <<raster_files, corrupt, yi, year_files, export_filename,
                   rsrc, mosaicked, disk, progress, cl>>
    /\ UNCHANGED notParVars

\* mosaic_by_year(year) on the worker of the task: filter the files of the
\* year, return NULL when there are none, otherwise define the export file
\* name.
mosaic_by_year(i) ==
    /\ mosPc = "parLapply"
    /\ Startable(i)
    /\ tasks' =
         [tasks EXCEPT ![i] =
            IF ~RegexValid(<<"_">> \o years[i] \o <<"-">>)
            THEN [@ EXCEPT !.pc = "error"]
            ELSE LET files == SelectSeq(raster_files,
                                        LAMBDA f : GreplYear(years[i], f))
                 IN  IF Len(files) = 0
                     THEN [@ EXCEPT !.pc = "null"]
                     ELSE [@ EXCEPT !.pc = "check",
                                    !.year_files = files,
                                    !.export_filename = ExportFilename(years[i])]]
    /\ UNCHANGED <<mosVars, cl>>
    /\ UNCHANGED notParVars

\* mosaic_rasters_in_list in a task, step 1
TaskCheckFiles(i) ==
    /\ tasks[i].pc = "check"
    /\ tasks' = [tasks EXCEPT ![i].pc =
                    IF Len(tasks[i].year_files) = 0 THEN "error" ELSE "sprc"]
    /\ UNCHANGED <<mosVars, cl>>
    /\ UNCHANGED notParVars

\* step 2
TaskSprc(i) ==
    /\ tasks[i].pc = "sprc"
    /\ tasks' = [tasks EXCEPT ![i] =
                    IF Range(tasks[i].year_files) \cap corrupt # {}
                    THEN [@ EXCEPT !.pc = "error"]
                    ELSE [@ EXCEPT !.pc = "mosaic", !.rsrc = tasks[i].year_files]]
    /\ UNCHANGED <<mosVars, cl>>
    /\ UNCHANGED notParVars

\* step 3
TaskMosaic(i) ==
    /\ tasks[i].pc = "mosaic"
    /\ tasks' = [tasks EXCEPT ![i] =
                    [@ EXCEPT !.pc = "rm", !.mosaicked = Range(tasks[i].rsrc)]]
    /\ UNCHANGED <<mosVars, cl>>
    /\ UNCHANGED notParVars

\* step 4
TaskRmGc(i) ==
    /\ tasks[i].pc = "rm"
    /\ tasks' = [tasks EXCEPT ![i] = [@ EXCEPT !.pc = "write", !.rsrc = <<>>]]
    /\ UNCHANGED <<mosVars, cl>>
    /\ UNCHANGED notParVars

\* step 5: the write starts ...
TaskStartWrite(i) ==
    /\ tasks[i].pc = "write"
    /\ tasks' = [tasks EXCEPT ![i].pc = "writing"]
    /\ UNCHANGED <<mosVars, cl>>
    /\ UNCHANGED notParVars

\* ... and finishes; the task returns its message.
TaskFinishWrite(i) ==
    /\ tasks[i].pc = "writing"
    /\ disk' = [f \in DOMAIN disk \cup {tasks[i].export_filename} |->
                   IF f = tasks[i].export_filename THEN tasks[i].mosaicked
                   ELSE disk[f]]
    /\ tasks' = [tasks EXCEPT ![i].pc = "returned"]
    /\ UNCHANGED <<raster_files, corrupt, years, yi, year_files,
                   export_filename, rsrc, mosaicked, progress, mosPc, cl>>
    /\ UNCHANGED notParVars

\* parLapply returns when the workers are done: with an error of a task it
\* raises the error and the script ends, stopCluster is not reached.
ParLapplyReturns ==
    /\ mosPc = "parLapply"
    /\ \A i \in DOMAIN tasks : ~Running(i) /\ ~Startable(i)
    /\ mosPc' = IF \E i \in DOMAIN tasks : tasks[i].pc = "error"
                THEN "aborted" ELSE "stop"
    /\ UNCHANGED <<raster_files, corrupt, years, yi, year_files,
                   export_filename, rsrc, mosaicked, disk, progress>>
    /\ UNCHANGED parVars
    /\ UNCHANGED notParVars

\* stopCluster(cl)
StopCluster ==
    /\ mosPc = "stop"
    /\ cl' = "stopped"
    /\ mosPc' = "done"
    /\ UNCHANGED <<raster_files, corrupt, years, yi, year_files,
                   export_filename, rsrc, mosaicked, disk, progress, tasks>>
    /\ UNCHANGED notParVars

ParNext ==
    \/ ParExtractYears
    \/ \E i \in DOMAIN tasks :
          \/ mosaic_by_year(i) \/ TaskCheckFiles(i) \/ TaskSprc(i)
          \/ TaskMosaic(i) \/ TaskRmGc(i) \/ TaskStartWrite(i)
          \/ TaskFinishWrite(i)
    \/ ParLapplyReturns
    \/ StopCluster

InitPar == ParInit /\ DateIdle /\ TsIdle /\ LsIdle /\ PxIdle /\ NdrsIdle

SpecPar == InitPar /\ [][ParNext]_vars

\* C24: in the parallel variant each year has one task and no two tasks have
\* the same export file, so no file is written by two tasks, at the same time
\* or one after the other.
C24_NoFileWrittenTwice ==
    \A i, j \in DOMAIN tasks :
        i # j =>
            /\ years[i] # years[j]
            /\ (tasks[i].export_filename # <<>>
                /\ tasks[j].export_filename # <<>>)
                   => tasks[i].export_filename # tasks[j].export_filename

\* Two tasks are writing their export files at the same time.
C24_Witness ==
    \E i, j \in DOMAIN tasks :
        i # j /\ tasks[i].pc = "writing" /\ tasks[j].pc = "writing"

(***************************************************************************)
(* Claims about the release of the tile collection                         *)
(***************************************************************************)
\* C25 as stated: the tile collection is released only after the mosaic has
\* been written: when rm(rsrc) runs, the export file holds the mosaic.
C25_ReleasedAfterWrite ==
    [][(rsrc # <<>> /\ rsrc' = <<>>) =>
          /\ export_filename \in DOMAIN disk
          /\ disk[export_filename] = mosaicked]_vars

\* C25 as the code has it: the tile collection is in memory only between
\* terra::sprc and rm(rsrc), that is while the mosaic is computed; it is
\* released once the mosaic is built, before the export file is written and
\* before the tiles of the next group are opened.
C25_ReleasedBeforeWrite ==
    /\ rsrc # <<>> => mosPc \in {"mosaic", "rm"}
    /\ mosPc = "rm" => mosaicked = Range(rsrc)

\* The second group of a run: its collection is released, its mosaic built
\* and its export file not yet written.
C25_Witness ==
    /\ mosPc = "write"
    /\ yi = 2
    /\ rsrc = <<>>
    /\ mosaicked # {}
    /\ export_filename \notin DOMAIN disk
    /\ DOMAIN disk # {}

(***************************************************************************)
(* Landsat time-series script: the export of the collection                *)
(*                                                                         *)
(* utils.exportImageCollection goes through the images of the collection   *)
(* and starts one export per image under the name fileNameFn gives it;     *)
(* drive holds the names of the exports started, in order.                 *)
(***************************************************************************)
\* The value of img.get('year') when the image has no year property.
NoYear == -1

\* A file name that ignores the year.
fileNameFn_noYear(img) == "landsat_multiband_" \o "unknown"

\* var year = img.get('year').getInfo() || 'unknown';
\* return 'landsat_multiband_' + year;
fileNameFn(img) ==
    "landsat_multiband_" \o
        (IF img.year = NoYear \/ img.year = 0 THEN "unknown"
         ELSE ToString(img.year))

\* Date lists whose start years may repeat (an interval shorter than a year).
ExportDateLists == SeqsUpTo(LsYears, MaxImages) \ {<<>>}

\* Collections of images with and without year property.
YearlessCollections ==
    {[i \in DOMAIN ys |->
         BandImage(WithType(<<"QA_PIXEL", "DRS", "NDVI">>, "double"), ys[i])] :
       ys \in SeqsUpTo({NoYear, FirstYear}, MaxImages) \ {<<>>}}

\* The collection of the script, before its maps, or a finished collection
\* from elsewhere handed to the export.
ExportInit ==
    /\ \/ /\ ls_origin = "ls_fn"
          /\ \E dl \in ExportDateLists, ix \in IndexLists :
                ls_input = ls_fn(dl, ix)
          /\ lsPc = "ndrs_coni"
       \/ /\ ls_origin = "any"
          /\ ls_input \in YearlessCollections
          /\ lsPc = "done"
    /\ ls = ls_input
    /\ drive = <<>>

\* exportImageCollection, one image: fileNameFn reads the year with
\* getInfo(), which raises the error of an image that cannot be computed.
ExportImage ==
    /\ lsPc = "done"
    /\ Len(drive) < Len(ls)
    /\ LET img == ls[Len(drive) + 1]
       IN  IF img.kind = "error"
           THEN /\ lsPc' = "export_failed"
                /\ UNCHANGED drive
           ELSE /\ drive' = Append(drive, fileNameFn(img))
                /\ UNCHANGED lsPc
    /\ UNCHANGED <<ls, ls_input, ls_origin>>
    /\ UNCHANGED notLsVars

ExportNext ==
    \/ MapNDRSConifer \/ MapNDRSBroadleaf \/ MapNDRSAll \/ MapNormalise
    \/ ExportImage

InitExport ==
    ExportInit /\ DateIdle /\ TsIdle /\ MosIdle /\ PxIdle /\ NdrsIdle /\ ParIdle

SpecExport == InitExport /\ [][ExportNext]_vars

\* C26: the export file name of a composite is 'landsat_multiband_' followed
\* by the year stamped on it, or by 'unknown' when it has no year; two
\* composites get the same name exactly when they have the same year, so a
\* date list with pairwise distinct start years gives pairwise distinct names.
C26_FilenameFromYear ==
    /\ \A i \in DOMAIN drive :
          /\ drive[i] = IF ls_input[i].year = NoYear
                        THEN "landsat_multiband_unknown"
                        ELSE "landsat_multiband_" \o ToString(ls_input[i].year)
          /\ \A j \in DOMAIN drive :
                (ls_input[i].year = ls_input[j].year) <=> (drive[i] = drive[j])
    /\ (\A i, j \in DOMAIN ls_input :
            i # j => ls_input[i].year # ls_input[j].year)
          => \A i, j \in DOMAIN drive : i # j => drive[i] # drive[j]

\* An image without year property has been exported as 'unknown'.
UnknownExported ==
    \E i \in DOMAIN drive :
        ls_input[i].year = NoYear /\ drive[i] = "landsat_multiband_unknown"

\* Two composites of different years, stamped by ls_fn, have been exported.
C26_Witness ==
    /\ ls_origin = "ls_fn"
    /\ Len(drive) >= 2
    /\ ls_input[1].year # ls_input[2].year
    /\ drive[1] = "landsat_multiband_" \o ToString(FirstYear)

(***************************************************************************)
(* Claims about the Landsat QA masks                                       *)
(***************************************************************************)
\* Bits lo .. lo + n - 1 of q are all zero.
BitsZero(q, lo, n) == (q \div (2 ^ lo)) % (2 ^ n) = 0

\* C27: mask_cloud_snow keeps a valid pixel exactly when bits 3, 4 and 5 of
\* QA_PIXEL are zero, mask_cloud exactly when bits 3 and 4 are zero; a pixel
\* kept by mask_cloud_snow is kept by mask_cloud.
C27_LandsatMaskBits ==
    image_in.sensor = "Landsat" =>
        LET q == Sel(image_in, "QA_PIXEL").n
        IN  /\ applied = <<"mask_cloud_snow">> =>
                  image.valid = (image_in.valid /\ BitsZero(q, 3, 3))
            /\ applied = <<"mask_cloud">> =>
                  image.valid = (image_in.valid /\ BitsZero(q, 3, 2))
            /\ mask_cloud_snowPixel(image_in).valid =>
                  mask_cloud(image_in).valid

\* A valid snow pixel without cloud or shadow: masked by mask_cloud_snow,
\* which mask_cloud would keep.
C27_Witness ==
    /\ image_in.sensor = "Landsat"
    /\ image_in.valid
    /\ Sel(image_in, "QA_PIXEL") = Num(32, 1)
    /\ applied = <<"mask_cloud_snow">>
    /\ ~image.valid
    /\ mask_cloud(image_in).valid

(***************************************************************************)
(* S2_DRS_fn: the scale factor of the Sentinel-2 bands                     *)
(*                                                                         *)
(* The maps of s2_ts on one pixel of one scene, up to the index functions: *)
(* masks.maskS2clouds, then multiply(0.0001).                              *)
(***************************************************************************)
\* image.multiply(v): every band is multiplied.
multiply(img, v) ==
    [img EXCEPT !.values = [i \in DOMAIN img.values |-> VMul(img.values[i], v)]]

ScaleInit ==
    /\ image_in \in S2PixelImages
    /\ image = image_in
    /\ applied = <<>>

\* .map(masks.maskS2clouds)
MapMaskS2clouds ==
    /\ applied = <<>>
    /\ image' = maskS2cloudsPixel(image)
    /\ applied' = <<"maskS2clouds">>
    /\ UNCHANGED image_in
    /\ UNCHANGED notPxVars

\* .map(function(i){return i.multiply(0.0001)})
MapScaleFactor ==
    /\ applied = <<"maskS2clouds">>
    /\ image' = multiply(image, Num(1, 10000))
    /\ applied' = Append(applied, "multiply")
    /\ UNCHANGED image_in
    /\ UNCHANGED notPxVars

ScaleNext == MapMaskS2clouds \/ MapScaleFactor

InitScale ==
    ScaleInit /\ DateIdle /\ TsIdle /\ LsIdle /\ MosIdle /\ NdrsIdle /\ ParIdle

SpecScale == InitScale /\ [][ScaleNext]_vars

\* C28: the band values that reach the index functions of S2_DRS_fn are the
\* digital numbers multiplied by 0.0001, once.
C28_ScaledOnce ==
    (applied = <<"maskS2clouds", "multiply">> /\ image.valid) =>
        Sel(image, "B4") = VMul(Sel(image_in, "B4"), Num(1, 10000))

(***************************************************************************)
(* The parallel variant against the serial loop                            *)
(***************************************************************************)
\* The export files at the end of the serial loop over the years ys, which
\* stops at the first error (an invalid pattern, an unreadable tile).
RECURSIVE SerialRun(_, _, _, _)
SerialRun(files, bad, ys, d) ==
    IF ys = <<>> THEN d
    ELSE IF ~RegexValid(<<"_">> \o Head(ys) \o <<"-">>) THEN d
    ELSE LET g == {f \in Range(files) : GreplYear(Head(ys), f)}
         IN  IF g = {} THEN SerialRun(files, bad, Tail(ys), d)
             ELSE IF g \cap bad # {} THEN d
             ELSE SerialRun(files, bad, Tail(ys),
                            [n \in DOMAIN d \cup {ExportFilename(Head(ys))} |->
                                IF n = ExportFilename(Head(ys)) THEN g ELSE d[n]])

SerialDisk(files, bad) ==
    SerialRun(files, bad,
              Unique([k \in DOMAIN files |-> ExtractYear(files[k])]), <<>>)

\* The serial loop ends with SerialDisk.
SerialLoopEndsWithSerialDisk ==
    mosPc \in {"done", "aborted"} => disk = SerialDisk(raster_files, corrupt)

\* C29: when the parallel script has ended, the export files are those of
\* the serial loop on the same directory, every task has been run to its
\* end, and the cluster is stopped; the cluster is not stopped before.
C29_ParallelAsSerial ==
    /\ mosPc \in {"done", "aborted"} =>
          /\ disk = SerialDisk(raster_files, corrupt)
          /\ \A i \in DOMAIN tasks : tasks[i].pc \in {"null", "returned"}
          /\ cl = "stopped"
    /\ cl = "stopped" =>
          \A i \in DOMAIN tasks : tasks[i].pc \in {"null", "returned"}

\* C29 without failing task: the same, for directories where no task fails.
ParallelAsSerialWithoutFailure ==
    (corrupt = {} /\ \A f \in Range(raster_files) : RegexValid(f)) =>
        /\ mosPc # "aborted"
        /\ mosPc = "done" =>
              /\ disk = SerialDisk(raster_files, corrupt)
              /\ disk = GroupDisk(raster_files)
              /\ \A i \in DOMAIN tasks : tasks[i].pc \in {"null", "returned"}
              /\ cl = "stopped"
        /\ cl = "stopped" => mosPc = "done"

(***************************************************************************)
(* Claims about the year groups                                            *)
(***************************************************************************)
\* C30: the year groups are pairwise disjoint: the year extracted from a file
\* name is the only year whose filter selects the file, and no file is in
\* the mosaics of two years.
C30_YearGroupsDisjoint ==
    /\ \A k \in DOMAIN years : \A f \in Range(raster_files) :
          GreplYear(years[k], f) => ExtractYear(f) = years[k]
    /\ \A n1, n2 \in DOMAIN disk : n1 # n2 => disk[n1] \cap disk[n2] = {}

====
